---- MODULE Spec2Model ----
(***************************************************************************)
(* A model of the Rehab training suite: the localStorage persistence layer *)
(* (storage), the host App, the timer-driven trial loops of the Reak,      *)
(* Vigi, Nback and Corsi modules, the Sacc session, the GameState updaters *)
(* of the other modules, and the trial generators of Sacc, Expl and Sagu.  *)
(*                                                                         *)
(* React execution model used throughout.  A component's handlers and      *)
(* timer callbacks are closures of the render that created them: they read *)
(* the state values of that render.  Refs and window globals are read      *)
(* live.  State updates issued in a click or key handler are rendered      *)
(* before the handler's event ends, so such a handler is one atomic step   *)
(* that ends with the new render (and its effects).  State updates issued  *)
(* in a timer callback are rendered in a later task: the callback is one   *)
(* step, the render that shows its updates is another, and an input event  *)
(* may run between the two.                                                *)
(***************************************************************************)
EXTENDS Integers, Sequences, FiniteSets, Bags, TLC

VARIABLES
  store,   \* localStorage: the text under USERS_KEY and under SESSIONS_KEY
  call,    \* the last direct call of the storage API: its arguments, the store before it, its result
  app,     \* the host App component
  reak,    \* the Reak module instance
  vigi,    \* the Vigi module instance and its two window globals
  nback,   \* the Nback module instance
  corsi,   \* the Corsi module instance
  sacc,    \* the Sacc module instance
  game,    \* the GameState of a session of one of the other modules
  gen,     \* a run of the item loop of Sacc.generateTrial or Expl.generateLevel
  sagu,    \* a run of Sagu.generateTrial
  phys,    \* the Phys module instance
  topo,    \* the Topo module instance
  expl,    \* the Expl module instance
  plan     \* the Plan module instance

vars == <<store, call, app, reak, vigi, nback, corsi, sacc, game, gen, sagu, phys, topo, expl, plan>>

(***************************************************************************)
(* Bounds of the model.                                                    *)
(***************************************************************************)
MaxLen == 3
MaxTrials == 6
MaxNow == 2
MaxIds == 2
MaxHist == 3
MaxNbackTrials == 26
NumIcons == 2
NumBlocks == 2
MaxCorsiTrials == 5
NumFaces == 3
MaxPhysTrials == 3
NumCells == 4
MaxTopoTrials == 2
MaxExplTrials == 3
MaxPlanTrials == 9
MaxOps == 4
MaxSaccScore == 90
MaxSaccErrors == 4
ElapsedMs == 100
MaxGameScore == 105
MaxGameErrors == 2
MaxRts == 6
MaxGenLevel == 2
ExplShapes == 2
ExplColors == 2

(***************************************************************************)
(* JavaScript values.  A number is finite or not; JSON text has no         *)
(* notation for a non-finite number and JSON.stringify writes null for it. *)
(***************************************************************************)
Num(n) == [t |-> "num", v |-> n]
Infinity == [t |-> "inf", v |-> 0]
JsNull == [t |-> "null", v |-> 0]

Range(s) == {s[i] : i \in 1..Len(s)}

(***************************************************************************)
(* localStorage and JSON.  A stored text is absent (getItem returns null), *)
(* the text of a JSON array, or text that JSON.parse rejects.              *)
(***************************************************************************)
Absent == [kind |-> "absent", items |-> <<>>]
Malformed == [kind |-> "malformed", items |-> <<>>]
ArrayText(items) == [kind |-> "array", items |-> items]

\* JSON.stringify of one number: the digits of a finite number, null otherwise.
StringifyNumber(x) == IF x.t = "num" THEN x ELSE JsNull

\* JSON.stringify of one User object.
StringifyUser(u) ==
  [id |-> u.id, name |-> u.name, createdAt |-> StringifyNumber(u.createdAt)]

\* JSON.stringify of one SessionResult object.
StringifySession(s) == [s EXCEPT !.timestamp = StringifyNumber(s.timestamp)]

StringifyUsers(list) == ArrayText([i \in 1..Len(list) |-> StringifyUser(list[i])])
StringifySessions(list) == ArrayText([i \in 1..Len(list) |-> StringifySession(list[i])])

\* localStorage.getItem(KEY) || '[]'
GetItemOrEmpty(text) == IF text.kind = "absent" THEN ArrayText(<<>>) ELSE text

\* JSON.parse: the array the text denotes, or a SyntaxError.
JSONParse(text) ==
  IF text.kind = "malformed"
    THEN [ok |-> FALSE, val |-> <<>>]
    ELSE [ok |-> TRUE, val |-> text.items]

(***************************************************************************)
(* storage (src/services/audio.ts, lines 112-187).  Each operation is an   *)
(* operator from the store (and the arguments) to the new store and the    *)
(* value returned; "threw" says that the call ended in an exception.       *)
(***************************************************************************)
getUsers(st) ==
  LET p == JSONParse(GetItemOrEmpty(st.users))
  IN IF p.ok THEN p.val ELSE <<>>

addUser(st, id, name, now) ==
  LET users == getUsers(st)
      newUser == [id |-> id, name |-> name, createdAt |-> Num(now)]
  IN [st |-> [st EXCEPT !.users = StringifyUsers(Append(users, newUser))],
      ret |-> newUser]

DeleteUserDropsAllSessions(st, userId) ==
  LET NotHim(u) == u.id # userId
      users == SelectSeq(getUsers(st), NotHim)
      st1 == [st EXCEPT !.users = StringifyUsers(users)]
      p == JSONParse(GetItemOrEmpty(st1.sessions))
  IN IF p.ok
       THEN [st1 EXCEPT !.sessions = StringifySessions(<<>>)]
       ELSE st1

\* deleteUser that removes the user and leaves the sessions.
DeleteUserKeepsSessions(st, userId) ==
  LET NotHim(u) == u.id # userId
      users == SelectSeq(getUsers(st), NotHim)
  IN [st EXCEPT !.users = StringifyUsers(users)]

deleteUser(st, userId) ==
  LET NotHim(u) == u.id # userId
      NotHis(s) == s.userId # userId
      users == SelectSeq(getUsers(st), NotHim)
      st1 == [st EXCEPT !.users = StringifyUsers(users)]
      p == JSONParse(GetItemOrEmpty(st1.sessions))
  IN IF p.ok
       THEN [st1 EXCEPT !.sessions = StringifySessions(SelectSeq(p.val, NotHis))]
       ELSE st1      \* catch: console.error, the sessions text stays as it was

\* sessions.unshift(session) in place of sessions.push(session).
SaveSessionInFront(st, session) ==
  LET p == JSONParse(GetItemOrEmpty(st.sessions))
  IN IF p.ok
       THEN [st EXCEPT !.sessions = StringifySessions(<<session>> \o p.val)]
       ELSE st

saveSession(st, session) ==
  LET p == JSONParse(GetItemOrEmpty(st.sessions))
  IN IF p.ok
       THEN [st EXCEPT !.sessions = StringifySessions(Append(p.val, session))]
       ELSE st       \* catch: console.error, nothing is saved

\* Array.prototype.sort((a, b) => b.timestamp - a.timestamp): a stable sort,
\* here an insertion sort that keeps the order of equal timestamps.
TimestampValue(s) == IF s.timestamp.t = "num" THEN s.timestamp.v ELSE 0

InsertByTimestampDesc(sorted, s) ==
  LET before == {i \in 1..Len(sorted) : TimestampValue(sorted[i]) >= TimestampValue(s)}
      k == Cardinality(before)
  IN SubSeq(sorted, 1, k) \o <<s>> \o SubSeq(sorted, k + 1, Len(sorted))

SortByTimestampDesc(list) ==
  LET F[i \in 0..Len(list)] ==
        IF i = 0 THEN <<>> ELSE InsertByTimestampDesc(F[i - 1], list[i])
  IN F[Len(list)]

GetUserSessionsUnsorted(st, userId) ==
  LET p == JSONParse(GetItemOrEmpty(st.sessions))
      His(s) == s.userId = userId
  IN IF p.ok THEN SelectSeq(p.val, His) ELSE <<>>

getUserSessions(st, userId) ==
  LET p == JSONParse(GetItemOrEmpty(st.sessions))
      His(s) == s.userId = userId
  IN IF p.ok THEN SortByTimestampDesc(SelectSeq(p.val, His)) ELSE <<>>

getAllData(st) ==
  LET p == JSONParse(GetItemOrEmpty(st.sessions))
  IN IF p.ok
       THEN [threw |-> FALSE, users |-> getUsers(st), sessions |-> p.val]
       ELSE [threw |-> TRUE, users |-> <<>>, sessions |-> <<>>]   \* the SyntaxError is not caught

\* The argument of importData: null, or an object whose users and sessions
\* fields are arrays or not.
NullData == [isNull |-> TRUE, usersIsArray |-> FALSE, users |-> <<>>,
             sessionsIsArray |-> FALSE, sessions |-> <<>>]

Snapshot(users, sessions) ==
  [isNull |-> FALSE, usersIsArray |-> TRUE, users |-> users,
   sessionsIsArray |-> TRUE, sessions |-> sessions]

ImportDataKeepsSessions(st, data) ==
  IF ~data.isNull /\ data.usersIsArray /\ data.sessionsIsArray
    THEN [st |-> [st EXCEPT !.users = StringifyUsers(data.users)], ret |-> TRUE]
    ELSE [st |-> st, ret |-> FALSE]

\* importData without the Array.isArray(data.sessions) test.
ImportDataUncheckedSessions(st, data) ==
  IF ~data.isNull /\ data.usersIsArray
    THEN [st |-> [users |-> StringifyUsers(data.users),
                  sessions |-> StringifySessions(data.sessions)],
          ret |-> TRUE]
    ELSE [st |-> st, ret |-> FALSE]

importData(st, data) ==
  IF ~data.isNull /\ data.usersIsArray /\ data.sessionsIsArray
    THEN [st |-> [users |-> StringifyUsers(data.users),
                  sessions |-> StringifySessions(data.sessions)],
          ret |-> TRUE]
    ELSE [st |-> st, ret |-> FALSE]

(***************************************************************************)
(* The values the storage API is called with.                              *)
(***************************************************************************)
UserIds == {1, 2}

Session(id, userId, timestamp) ==
  [id |-> id, userId |-> userId, moduleId |-> "REAK", timestamp |-> timestamp,
   durationSeconds |-> 0, level |-> 1, correctCount |-> 0, errorCount |-> 0,
   totalTrials |-> 0, averageReactionTimeMs |-> 0]

\* Users and sessions as JSON.parse returns them from an import file; a file
\* may spell a number (1e999) that JSON.parse reads as Infinity.
ImportUsers ==
  {[id |-> 1, name |-> "A", createdAt |-> Num(0)],
   [id |-> 2, name |-> "B", createdAt |-> Infinity]}

ImportSessions ==
  {Session(1, 1, Num(1)), Session(3, 2, Infinity)}

SavedSessions == {Session(1, 1, Num(1)), Session(2, 2, Num(2)), Session(4, 1, Num(2))}

SeqsUpTo(S, n) == UNION {[1..k -> S] : k \in 0..n}

ImportArguments ==
  {NullData,
   [Snapshot(<<>>, <<>>) EXCEPT !.usersIsArray = FALSE],
   [Snapshot(<<>>, <<>>) EXCEPT !.sessionsIsArray = FALSE]}
  \cup {Snapshot(us, ss) : us \in SeqsUpTo(ImportUsers, 2), ss \in SeqsUpTo(ImportSessions, 2)}

EmptyStore == [users |-> Absent, sessions |-> Absent]

NoCall == [op |-> "none", arg |-> "", pre |-> [users |-> Absent, sessions |-> Absent],
           threw |-> FALSE, ret |-> ""]

Called(op, arg, threw, ret) ==
  call' = [op |-> op, arg |-> arg, pre |-> store, threw |-> threw, ret |-> ret]

StoredUsersLen(st) == Len(GetItemOrEmpty(st.users).items)
StoredSessionsLen(st) == Len(GetItemOrEmpty(st.sessions).items)

(***************************************************************************)
(* Direct calls of the storage API, one action per operation.              *)
(***************************************************************************)
GetUsersCall ==
  /\ Called("getUsers", "", FALSE, getUsers(store))
  /\ UNCHANGED store

AddUserCall ==
  \E id \in UserIds :
    /\ StoredUsersLen(store) < MaxLen
    /\ \A u \in Range(getUsers(store)) : u.id # id      \* crypto.randomUUID() is fresh
    /\ LET r == addUser(store, id, "A", 0)
       IN /\ store' = r.st
          /\ Called("addUser", id, FALSE, r.ret)

DeleteUserCall ==
  \E userId \in UserIds :
    /\ store' = deleteUser(store, userId)
    /\ Called("deleteUser", userId, FALSE, "")

SaveSessionCall ==
  \E session \in SavedSessions :
    /\ StoredSessionsLen(store) < MaxLen
    /\ store' = saveSession(store, session)
    /\ Called("saveSession", session, FALSE, "")

GetUserSessionsCall ==
  \E userId \in UserIds :
    /\ Called("getUserSessions", userId, FALSE, getUserSessions(store, userId))
    /\ UNCHANGED store

GetAllDataCall ==
  LET r == getAllData(store)
  IN /\ Called("getAllData", "", r.threw, [users |-> r.users, sessions |-> r.sessions])
     /\ UNCHANGED store

ImportDataCall ==
  \E data \in ImportArguments :
    LET r == importData(store, data)
    IN /\ store' = r.st
       /\ Called("importData", data, FALSE, r.ret)

(***************************************************************************)
(* The host App (src/services/audio.ts, lines 242-375).  Date.now() is a   *)
(* clock that advances in steps of 500 ms; crypto.randomUUID() is a        *)
(* counter of the ids handed out so far.                                   *)
(***************************************************************************)
NoUser == [id |-> 0, name |-> "", createdAt |-> Num(0)]

ModuleIDs == {"REAK", "CORSI"}

DateNow(a) == a.now * 500

\* What a module hands to onComplete: its counters, and durationSeconds 0.
PartialResults(moduleId) ==
  {[moduleId |-> moduleId, durationSeconds |-> 0, level |-> c[1], correctCount |-> c[2],
    errorCount |-> c[3], totalTrials |-> c[2] + c[3], averageReactionTimeMs |-> c[4]]
     : c \in {<<1, 0, 0, 0>>, <<2, 5, 1, 250>>}}

AppImportFiles ==
  {NullData,
   Snapshot(<<>>, <<>>),
   Snapshot(<<[id |-> 9, name |-> "B", createdAt |-> Num(0)]>>, <<Session(9, 9, Num(1))>>)}

NoFile == [NullData EXCEPT !.isNull = FALSE]

AppInit ==
  [user |-> NoUser, users |-> getUsers(EmptyStore), view |-> "login",
   activeModule |-> "none", sessionStartTime |-> 0, count |-> 3,
   now |-> 0, uuid |-> 0, reading |-> NoFile]

handleLogin(a, u) == [a EXCEPT !.user = u, !.view = "menu"]

handleLogout(a) == [a EXCEPT !.user = NoUser, !.view = "login", !.activeModule = "none"]

\* startModule that counts down from 4.
StartModuleFromFour(a, id) == [a EXCEPT !.activeModule = id, !.count = 4, !.view = "countdown"]

startModule(a, id) == [a EXCEPT !.activeModule = id, !.count = 3, !.view = "countdown"]

HandleModuleCompleteKeepsDuration(a, st, result) ==
  IF a.user = NoUser \/ a.activeModule = "none"
    THEN [app |-> a, st |-> st]
    ELSE LET fullResult ==
               [result EXCEPT !.durationSeconds = result.durationSeconds]
               @@ [id |-> a.uuid + 1, userId |-> a.user.id, timestamp |-> Num(DateNow(a))]
         IN [app |-> [a EXCEPT !.view = "menu", !.activeModule = "none", !.uuid = @ + 1],
             st |-> saveSession(st, fullResult)]

handleModuleComplete(a, st, result) ==
  IF a.user = NoUser \/ a.activeModule = "none"
    THEN [app |-> a, st |-> st]
    ELSE LET fullResult ==
               [result EXCEPT !.durationSeconds = (DateNow(a) - a.sessionStartTime) \div 1000]
               @@ [id |-> a.uuid + 1, userId |-> a.user.id, timestamp |-> Num(DateNow(a))]
         IN [app |-> [a EXCEPT !.view = "menu", !.activeModule = "none", !.uuid = @ + 1],
             st |-> saveSession(st, fullResult)]

AppLogin ==
  /\ app.view = "login"
  /\ \E i \in 1..Len(app.users) : app' = handleLogin(app, app.users[i])
  /\ UNCHANGED store

AppLogout ==
  /\ app.view = "menu"
  /\ app' = handleLogout(app)
  /\ UNCHANGED store

AppCreateUser ==
  /\ app.view = "login"
  /\ app.uuid < MaxIds
  /\ Len(app.users) < MaxLen
  /\ StoredUsersLen(store) < MaxLen
  /\ LET r == addUser(store, app.uuid + 1, "A", DateNow(app))
     IN /\ store' = r.st
        /\ app' = handleLogin([app EXCEPT !.users = Append(app.users, r.ret), !.uuid = @ + 1],
                              r.ret)

AppDeleteUser ==
  /\ app.view = "login"
  /\ \E i \in 1..Len(app.users) :
       /\ store' = deleteUser(store, app.users[i].id)
       /\ app' = [app EXCEPT !.users = getUsers(store')]

\* handleImportData starts reading the chosen file; reader.onload runs later.
AppChooseImportFile ==
  /\ app.view = "login"
  /\ app.reading = NoFile
  /\ \E data \in AppImportFiles : app' = [app EXCEPT !.reading = data]
  /\ UNCHANGED store

AppImportLoaded ==
  /\ app.reading # NoFile
  /\ LET r == importData(store, app.reading)
     IN /\ store' = r.st
        /\ app' = [app EXCEPT !.reading = NoFile,
                               !.users = IF r.ret THEN getUsers(r.st) ELSE @]

AppShowDashboard ==
  /\ app.view = "menu"
  /\ app' = [app EXCEPT !.view = "dashboard"]
  /\ UNCHANGED store

AppBackToMenu ==
  /\ app.view = "dashboard"
  /\ app' = [app EXCEPT !.view = "menu"]
  /\ UNCHANGED store

AppStartModule ==
  /\ app.view = "menu"
  /\ \E id \in ModuleIDs : app' = startModule(app, id)
  /\ UNCHANGED store

\* The countdown effect's 1000 ms timer: setCount(c => c - 1).
AppCountdownTimer ==
  /\ app.view = "countdown"
  /\ app.count > 0
  /\ app' = [app EXCEPT !.count = @ - 1]
  /\ UNCHANGED store

\* The countdown effect at count 0.
AppCountdownDone ==
  /\ app.view = "countdown"
  /\ app.count = 0
  /\ app' = [app EXCEPT !.sessionStartTime = DateNow(app), !.view = "training"]
  /\ UNCHANGED store

\* The mounted module's onStop: finishSession calls onComplete(result).
AppModuleComplete ==
  /\ app.view = "training"
  /\ app.uuid < MaxIds
  /\ StoredSessionsLen(store) < MaxLen
  /\ \E result \in PartialResults(app.activeModule) :
       LET r == handleModuleComplete(app, store, result)
       IN /\ app' = r.app
          /\ store' = r.st

AppClock ==
  /\ app.now < MaxNow
  /\ app' = [app EXCEPT !.now = @ + 1]
  /\ UNCHANGED store

(***************************************************************************)
(* Timers.  An armed timer is a record: its kind, whether the ref that     *)
(* received its handle still holds that handle ("tracked": clearTimeout on *)
(* the ref cancels it), and the values its callback's closure captured.    *)
(* Storing a new handle in a ref leaves the timer of the old handle armed  *)
(* and out of reach.                                                       *)
(***************************************************************************)
Untrack(timers, kind) ==
  {IF t.kind = kind THEN [t EXCEPT !.tracked = FALSE] ELSE t : t \in timers}

\* ref.current = window.setTimeout(callback, ...)
Arm(timers, kind, env) ==
  Untrack(timers, kind) \cup {[kind |-> kind, tracked |-> TRUE, env |-> env]}

\* window.setTimeout(callback, ...) whose handle is not kept
ArmUntracked(timers, kind, env) ==
  timers \cup {[kind |-> kind, tracked |-> FALSE, env |-> env]}

\* window.clearTimeout(ref.current)
ClearRef(timers, kind) == {t \in timers : ~(t.kind = kind /\ t.tracked)}

(***************************************************************************)
(* Reak (src/unnamed/part_001, lines 15-151).  status is the value of the  *)
(* status state, rstatus the value the current render (and so every        *)
(* handler) reads.  started counts the trials scheduleTrial has started.   *)
(***************************************************************************)
ReakEnv(status, isPaused) == [status |-> status, isPaused |-> isPaused]

clearAllTimers(timers) == {t \in timers : ~t.tracked}

scheduleTrial(r, env) ==
  IF ~r.isMounted \/ env.isPaused
    THEN r
    ELSE [r EXCEPT !.status = "waiting",
                   !.timers = Arm(clearAllTimers(@), "stimulus", env),
                   !.started = @ + 1]

ReakInit ==
  scheduleTrial(
    [level |-> 1, score |-> 0, errors |-> 0, trials |-> 0, isPaused |-> FALSE,
     status |-> "waiting", rstatus |-> "waiting", isMounted |-> TRUE,
     timers |-> {}, started |-> 0],
    ReakEnv("waiting", FALSE))

\* React renders the updates of a timer callback within milliseconds, and the
\* timers are hundreds of milliseconds apart: a timer callback finds the
\* updates of the one before it rendered.  Only an input event can fall
\* between a timer callback and the render of its updates.
ReakRendered == reak.isMounted => reak.rstatus = reak.status

\* The callback of timeoutRef: the stimulus appears and the miss timer is armed.
ReakStimulusTimer ==
  \E t \in reak.timers :
    /\ t.kind = "stimulus"
    /\ ReakRendered
    /\ LET rest == reak.timers \ {t}
       IN reak' = IF ~reak.isMounted
                    THEN [reak EXCEPT !.timers = rest]
                    ELSE [reak EXCEPT !.status = "go",
                                      !.timers = Arm(rest, "miss", t.env)]

\* The callback of missTimerRef; its status is the one its closure captured.
MissTimerCallback(r, t) ==
  LET rest == r.timers \ {t}
  IN IF r.isMounted /\ t.env.status # "feedback"
       THEN [r EXCEPT !.status = "feedback",
                      !.errors = @ + 1,
                      !.trials = @ + 1,
                      !.timers = Arm(rest, "feedback", t.env)]
       ELSE [r EXCEPT !.timers = rest]

ReakMissTimer ==
  \E t \in reak.timers :
    /\ t.kind = "miss"
    /\ ReakRendered
    /\ reak.trials < MaxTrials
    /\ reak' = MissTimerCallback(reak, t)

\* The callback of feedbackTimerRef is scheduleTrial itself.
ReakFeedbackTimer ==
  \E t \in reak.timers :
    /\ t.kind = "feedback"
    /\ ReakRendered
    /\ reak' = scheduleTrial([reak EXCEPT !.timers = @ \ {t}], t.env)

\* A click or the space key.  The handler reads the rendered status; its own
\* updates are rendered before the event ends.
handleAction(r) ==
  LET env == ReakEnv(r.rstatus, r.isPaused)
  IN IF r.rstatus = "waiting"
       THEN [r EXCEPT !.timers = Arm(clearAllTimers(@), "feedback", env),
                      !.status = "feedback",
                      !.rstatus = "feedback",
                      !.errors = @ + 1,
                      !.trials = @ + 1]
       ELSE [r EXCEPT !.timers = Arm(ClearRef(@, "miss"), "feedback", env),
                      !.status = "feedback",
                      !.rstatus = "feedback",
                      !.score = @ + 1,
                      !.trials = @ + 1,
                      !.level = IF r.score > 0 /\ r.score % 5 = 0 THEN @ + 1 ELSE @]

ReakHandleAction ==
  /\ ~reak.isPaused
  /\ reak.rstatus # "feedback"
  /\ reak.isMounted
  /\ reak.trials < MaxTrials
  /\ reak' = handleAction(reak)

\* React renders the updates that timer callbacks issued.
ReakRender ==
  /\ reak.isMounted
  /\ reak.rstatus # reak.status
  /\ reak' = [reak EXCEPT !.rstatus = reak.status]

ReakPauseToggle ==
  /\ reak.isMounted
  /\ reak' = [reak EXCEPT !.isPaused = ~@]

ReakFinishSession ==
  /\ reak.isMounted
  /\ reak' = [reak EXCEPT !.isMounted = FALSE, !.timers = clearAllTimers(@)]

(***************************************************************************)
(* Vigi (src/unnamed/part_007).  vigiTarget and vigiResponded are the two  *)
(* window globals.  The handle of the 1500 ms display timer is kept in     *)
(* timerRef; the handle of the 500 ms blank timer is not kept.             *)
(***************************************************************************)
VigiEnv(isPlaying, isPaused) == [isPlaying |-> isPlaying, isPaused |-> isPaused]

runTrial(v, env, isTarget) ==
  IF ~env.isPlaying \/ env.isPaused
    THEN v
    ELSE [v EXCEPT !.currentItem = IF isTarget THEN "Zap" ELSE "other",
                   !.vigiTarget = isTarget,
                   !.vigiResponded = FALSE,
                   !.timers = Arm(@, "display", env)]

VigiMounted ==
  [level |-> 1, score |-> 0, errors |-> 0, trials |-> 0, isPlaying |-> TRUE,
   isPaused |-> FALSE, currentItem |-> "none", vigiTarget |-> FALSE,
   vigiResponded |-> FALSE, timers |-> {}, mounted |-> TRUE]

\* The mount effect runs the first trial.
VigiInits == {runTrial(VigiMounted, VigiEnv(TRUE, FALSE), isTarget) : isTarget \in BOOLEAN}

VigiInit == runTrial(VigiMounted, VigiEnv(TRUE, FALSE), FALSE)

\* The callback of the display timer of runTrial.
DisplayTimeout(v, t) ==
  LET missed == v.vigiTarget /\ ~v.vigiResponded
  IN [v EXCEPT !.errors = IF missed THEN @ + 1 ELSE @,
               !.trials = IF missed THEN @ + 1 ELSE @,
               !.currentItem = "none",
               !.timers = ArmUntracked(@ \ {t}, "blank", t.env)]

VigiDisplayTimer ==
  \E t \in vigi.timers :
    /\ t.kind = "display"
    /\ (vigi.vigiTarget /\ ~vigi.vigiResponded) => vigi.trials < MaxTrials
    /\ vigi' = DisplayTimeout(vigi, t)

\* The callback of the blank timer is runTrial of the same closure.
VigiBlankTimer ==
  \E t \in vigi.timers, isTarget \in BOOLEAN :
    /\ t.kind = "blank"
    /\ vigi' = runTrial([vigi EXCEPT !.timers = @ \ {t}], t.env, isTarget)

handlePress(v) ==
  IF v.vigiResponded \/ v.isPaused
    THEN v
    ELSE IF v.vigiTarget
      THEN [v EXCEPT !.vigiResponded = TRUE, !.score = @ + 1, !.trials = @ + 1]
      ELSE [v EXCEPT !.vigiResponded = TRUE, !.errors = @ + 1, !.trials = @ + 1]

VigiHandlePress ==
  /\ vigi.mounted
  /\ vigi.trials < MaxTrials
  /\ ~(vigi.vigiResponded \/ vigi.isPaused)
  /\ vigi' = handlePress(vigi)

\* The effect on [isPlaying, isPaused]: the cleanup of the previous run
\* clears timerRef, then the effect runs a trial unless paused or stopped.
PauseEffect(v, isTarget) ==
  LET cleaned == [v EXCEPT !.timers = ClearRef(@, "display")]
  IN IF v.isPlaying /\ ~v.isPaused
       THEN runTrial(cleaned, VigiEnv(v.isPlaying, v.isPaused), isTarget)
       ELSE cleaned

VigiPauseToggle ==
  \E isTarget \in BOOLEAN :
    /\ vigi.mounted
    /\ vigi' = PauseEffect([vigi EXCEPT !.isPaused = ~@], isTarget)

\* finishSession: isPlaying becomes false and onComplete unmounts the module,
\* which runs the effect's cleanup.
VigiFinishSession ==
  /\ vigi.mounted
  /\ vigi' = [vigi EXCEPT !.isPlaying = FALSE, !.mounted = FALSE,
                           !.timers = ClearRef(@, "display")]

(***************************************************************************)
(* Nback (src/modules/Nback.tsx).  currentIconIdx is the value of the      *)
(* state, rIconIdx the value the current render (and so handleMatch)       *)
(* reads; 0 stands for null.  userRespondedState is the userResponded     *)
(* state and rUserResponded its rendered value, which disables the match   *)
(* button.  history, isCurrentTarget, userResponded and isLoopRunning are  *)
(* refs.  startBlankPhase and prepareAndShowNext are     *)
(* memoized: the pair in use is the one of the render in which isPlaying   *)
(* or isPaused last changed, with the isPaused and the level of that       *)
(* render.  committed counts the outcomes committed since the current      *)
(* stimulus appeared.                                                      *)
(***************************************************************************)
ICONS == 1..NumIcons

NbackEnv(isPaused, level) == [isPaused |-> isPaused, level |-> level]

getN(lvl) == IF lvl <= 5 THEN 1 ELSE IF lvl <= 10 THEN 2 ELSE 3

clearTimers(timers) == {t \in timers : ~t.tracked}

startBlankPhase(b, env) ==
  IF ~b.isPlaying \/ env.isPaused
    THEN b
    ELSE LET omitted == b.isCurrentTarget /\ ~b.userResponded /\ Len(b.history) > 0
         IN [b EXCEPT !.errors = IF omitted THEN @ + 1 ELSE @,
                      !.trials = IF omitted THEN @ + 1 ELSE @,
                      !.committed = IF omitted THEN @ + 1 ELSE @,
                      !.currentIconIdx = 0,
                      !.isCurrentTarget = FALSE,
                      !.userRespondedState = FALSE,
                      !.userResponded = FALSE,
                      !.timers = Arm(clearTimers(@), "blank", env)]

\* The do-while of prepareAndShowNext: a draw that breaks no rule ends the
\* loop; after ten rejected draws the tenth is kept.
DistractorIsValid(h, n, idx) ==
  /\ ~(Len(h) - n >= 0 /\ idx = h[Len(h) - n + 1])
  /\ ~(n > 1 /\ Len(h) > 0 /\ idx = h[Len(h)])

DistractorOutcomes(h, n) ==
  {idx \in ICONS : DistractorIsValid(h, n, idx)}          \* a draw that passes
  \cup {idx \in ICONS : ~DistractorIsValid(h, n, idx)}    \* the tenth of ten rejected draws

\* The loop reads history at length - n and at length - 1 only, and n is at
\* most 3: the model keeps the last MaxHist entries of historyRef.
LastOf(h) == IF Len(h) > MaxHist THEN SubSeq(h, Len(h) - MaxHist + 1, Len(h)) ELSE h

prepareAndShowNext(b, env, shouldBeMatch, drawn) ==
  IF ~b.isPlaying \/ env.isPaused
    THEN b
    ELSE LET h == b.history
             n == getN(env.level)
             isMatch == Len(h) - n >= 0 /\ shouldBeMatch
             nextIdx == IF isMatch THEN h[Len(h) - n + 1] ELSE drawn
         IN [b EXCEPT !.history = LastOf(Append(h, nextIdx)),
                      !.isCurrentTarget = isMatch,
                      !.currentIconIdx = nextIdx,
                      !.committed = 0,
                      !.timers = Arm(clearTimers(@), "display", env)]

NbackMounted ==
  [level |-> 1, score |-> 0, errors |-> 0, trials |-> 0, isPlaying |-> TRUE,
   isPaused |-> FALSE, currentIconIdx |-> 0, rIconIdx |-> 0, history |-> <<>>,
   isCurrentTarget |-> FALSE, userResponded |-> FALSE, isLoopRunning |-> FALSE,
   userRespondedState |-> FALSE, rUserResponded |-> FALSE,
   timers |-> {}, mounted |-> TRUE, committed |-> 0]

\* The game-state watcher: it starts the loop once, and stops it on pause.
Watcher(b) ==
  IF b.isPlaying /\ ~b.isPaused
    THEN IF ~b.isLoopRunning
           THEN startBlankPhase([b EXCEPT !.isLoopRunning = TRUE],
                                NbackEnv(b.isPaused, b.level))
           ELSE b
    ELSE [b EXCEPT !.isLoopRunning = FALSE, !.timers = clearTimers(@)]

NbackInit == Watcher(NbackMounted)

\* A timer callback finds the updates of the one before it rendered.
NbackRendered ==
  nback.mounted => /\ nback.rIconIdx = nback.currentIconIdx
                   /\ nback.rUserResponded = nback.userRespondedState

\* The callback of displayTimerRef.
NbackDisplayTimer ==
  \E t \in nback.timers :
    /\ t.kind = "display"
    /\ NbackRendered
    /\ (nback.isCurrentTarget /\ ~nback.userResponded) => nback.trials < MaxNbackTrials
    /\ nback' = startBlankPhase([nback EXCEPT !.timers = @ \ {t}], t.env)

\* The callback of blankTimerRef.
NbackBlankTimer ==
  \E t \in nback.timers, shouldBeMatch \in BOOLEAN :
   \E drawn \in DistractorOutcomes(nback.history, getN(t.env.level)) :
    /\ t.kind = "blank"
    /\ NbackRendered
    /\ nback' = prepareAndShowNext([nback EXCEPT !.timers = @ \ {t}], t.env,
                                   shouldBeMatch, drawn)

handleMatch(b) ==
  IF b.userResponded \/ b.rIconIdx = 0
    THEN b
    ELSE IF b.isCurrentTarget
      THEN [b EXCEPT !.userResponded = TRUE,
                     !.userRespondedState = TRUE,
                     !.rUserResponded = TRUE,
                     !.score = @ + 1,
                     !.trials = @ + 1,
                     !.committed = @ + 1,
                     !.level = IF b.score > 0 /\ b.score % 5 = 0
                                 THEN (IF @ + 1 < 20 THEN @ + 1 ELSE 20) ELSE @]
      ELSE [b EXCEPT !.userResponded = TRUE,
                     !.userRespondedState = TRUE,
                     !.rUserResponded = TRUE,
                     !.errors = @ + 1,
                     !.trials = @ + 1,
                     !.committed = @ + 1]

\* A click on the match button: the button is disabled while the rendered
\* icon is null or the rendered userResponded is true, and the pause overlay
\* covers it while the session is paused.
NbackHandleMatch ==
  /\ nback.mounted
  /\ ~nback.isPaused
  /\ ~(nback.rIconIdx = 0 \/ nback.rUserResponded)
  /\ nback.trials < MaxNbackTrials
  /\ ~(nback.userResponded \/ nback.rIconIdx = 0)
  /\ nback' = handleMatch(nback)

\* React renders the updates that timer callbacks issued.
NbackRender ==
  /\ nback.mounted
  /\ \/ nback.rIconIdx # nback.currentIconIdx
     \/ nback.rUserResponded # nback.userRespondedState
  /\ nback' = [nback EXCEPT !.rIconIdx = nback.currentIconIdx,
                             !.rUserResponded = nback.userRespondedState]

\* onPauseToggle, the render it causes, the watcher effect, and the render
\* of the updates the effect issued.
NbackPauseToggle ==
  /\ nback.mounted
  /\ (nback.isCurrentTarget /\ ~nback.userResponded) => nback.trials < MaxNbackTrials
  /\ LET b == Watcher([nback EXCEPT !.isPaused = ~@])
     IN nback' = [b EXCEPT !.rIconIdx = b.currentIconIdx,
                           !.rUserResponded = b.userRespondedState]

\* finishSession calls onComplete; the unmount cleanup clears the timers.
NbackFinishSession ==
  /\ nback.mounted
  /\ nback' = [nback EXCEPT !.mounted = FALSE, !.timers = clearTimers(@)]

(***************************************************************************)
(* Corsi (src/modules/Corsi.tsx).  phase is the value of the state, rphase *)
(* the value the current render (and so handleBlockClick) reads.  No timer *)
(* handle is kept: the playback interval (with its sequence and its step), *)
(* the highlight-off timeouts and the next-trial timeout (with the level   *)
(* it passes to startTrial) run until they fire.  finished says that       *)
(* finishSession has called onComplete; timer callbacks that run after it  *)
(* still call the state setters, and the model records what they set.      *)
(***************************************************************************)
Blocks == 1..NumBlocks

SequenceLength(level) == (level \div 2) + 2

startTrial(c, level, newSeq) ==
  [c EXCEPT !.isReverse = level >= 5,
            !.phase = "showing",
            !.userSequence = <<>>,
            !.sequence = newSeq,
            !.timers = @ \cup {[kind |-> "interval", seq |-> newSeq, step |-> 0, level |-> 0]}]

CorsiMounted ==
  [level |-> 1, score |-> 0, errors |-> 0, trials |-> 0, isPaused |-> FALSE,
   phase |-> "showing", rphase |-> "showing", sequence |-> <<>>,
   userSequence |-> <<>>, activeBlock |-> 0, isReverse |-> FALSE,
   timers |-> {}, finished |-> FALSE]

\* The mount effect places the blocks and starts the first trial.
CorsiInits == {startTrial(CorsiMounted, 1, newSeq) : newSeq \in [1..SequenceLength(1) -> Blocks]}

CorsiInit == startTrial(CorsiMounted, 1, [i \in 1..SequenceLength(1) |-> 1])

OffTimer == [kind |-> "off", seq |-> <<>>, step |-> 0, level |-> 0]

NextTimer(level) == [kind |-> "next", seq |-> <<>>, step |-> 0, level |-> level]

\* One tick of the playback interval.
IntervalTick(c, t) ==
  IF t.step >= Len(t.seq)
    THEN [c EXCEPT !.timers = @ \ {t},              \* clearInterval(interval)
                   !.activeBlock = 0,
                   !.phase = "input"]
    ELSE [c EXCEPT !.activeBlock = t.seq[t.step + 1],
                   !.timers = (@ \ {t}) \cup {OffTimer, [t EXCEPT !.step = @ + 1]}]

\* A timer callback finds the updates of the one before it rendered.
CorsiRendered == ~corsi.finished => corsi.rphase = corsi.phase

CorsiIntervalTick ==
  \E t \in corsi.timers :
    /\ t.kind = "interval"
    /\ CorsiRendered
    /\ corsi' = IntervalTick(corsi, t)

\* The 700 ms and 200 ms timeouts that turn the highlight off.
CorsiHighlightOff ==
  /\ OffTimer \in corsi.timers
  /\ CorsiRendered
  /\ corsi' = [corsi EXCEPT !.activeBlock = 0, !.timers = @ \ {OffTimer}]

\* The 1500 ms timeout that starts the next trial.
CorsiNextTrialTimer ==
  \E t \in corsi.timers :
    /\ t.kind = "next"
    /\ CorsiRendered
    /\ \E newSeq \in [1..SequenceLength(t.level) -> Blocks] :
         corsi' = startTrial([corsi EXCEPT !.timers = @ \ {t}], t.level, newSeq)

\* handleBlockClick that matches index to index in reverse mode as well.
HandleBlockClickForward(c, id) ==
  LET newUserSeq == Append(c.userSequence, id)
      currentIndex == Len(newUserSeq) - 1
      targetId == c.sequence[currentIndex + 1]
      lit == [c EXCEPT !.userSequence = newUserSeq,
                       !.activeBlock = id,
                       !.timers = @ \cup {OffTimer}]
  IN IF id # targetId
       THEN [lit EXCEPT !.phase = "feedback",
                        !.rphase = "feedback",
                        !.errors = @ + 1,
                        !.trials = @ + 1,
                        !.level = IF @ - 1 > 1 THEN @ - 1 ELSE 1,
                        !.timers = @ \cup {NextTimer(IF c.level - 1 > 1 THEN c.level - 1 ELSE 1)}]
       ELSE IF Len(newUserSeq) = Len(c.sequence)
         THEN [lit EXCEPT !.phase = "feedback",
                          !.rphase = "feedback",
                          !.score = @ + 1,
                          !.trials = @ + 1,
                          !.level = c.level + 1,
                          !.timers = @ \cup {NextTimer(c.level + 1)}]
         ELSE lit

handleBlockClick(c, id) ==
  LET newUserSeq == Append(c.userSequence, id)
      currentIndex == Len(newUserSeq) - 1
      targetId == IF c.isReverse
                    THEN c.sequence[Len(c.sequence) - 1 - currentIndex + 1]
                    ELSE c.sequence[currentIndex + 1]
      lit == [c EXCEPT !.userSequence = newUserSeq,
                       !.activeBlock = id,
                       !.timers = @ \cup {OffTimer}]
  IN IF id # targetId
       THEN [lit EXCEPT !.phase = "feedback",
                        !.rphase = "feedback",
                        !.errors = @ + 1,
                        !.trials = @ + 1,
                        !.level = IF @ - 1 > 1 THEN @ - 1 ELSE 1,
                        !.timers = @ \cup {NextTimer(IF c.level - 1 > 1 THEN c.level - 1 ELSE 1)}]
       ELSE IF Len(newUserSeq) = Len(c.sequence)
         THEN [lit EXCEPT !.phase = "feedback",
                          !.rphase = "feedback",
                          !.score = @ + 1,
                          !.trials = @ + 1,
                          !.level = c.level + 1,
                          !.timers = @ \cup {NextTimer(c.level + 1)}]
         ELSE lit

CorsiBlockClick ==
  \E id \in Blocks :
    /\ ~corsi.finished
    /\ ~(corsi.rphase # "input" \/ corsi.isPaused)
    /\ corsi.trials < MaxCorsiTrials
    /\ corsi' = handleBlockClick(corsi, id)

\* React renders the updates that timer callbacks issued.
CorsiRender ==
  /\ ~corsi.finished
  /\ corsi.rphase # corsi.phase
  /\ corsi' = [corsi EXCEPT !.rphase = corsi.phase]

CorsiPauseToggle ==
  /\ ~corsi.finished
  /\ corsi' = [corsi EXCEPT !.isPaused = ~@]

\* finishSession: onComplete, and nothing else.
CorsiFinishSession ==
  /\ ~corsi.finished
  /\ corsi' = [corsi EXCEPT !.finished = TRUE]

(***************************************************************************)
(* Sacc (src/modules/Sacc.tsx).  Every update is issued in a click         *)
(* handler, so the handlers read the current state.  The grid is kept as   *)
(* its size: generateTrial puts one target and numItems - 1 distractors    *)
(* into it (the loop that builds it is modelled item by item further       *)
(* down), so a click hits the target or a distractor.                      *)
(***************************************************************************)
NumShapes == 10
NumColors == 8

Min(a, b) == IF a <= b THEN a ELSE b
Max(a, b) == IF a >= b THEN a ELSE b

GetParamsUncapped(level) ==
  LET gridSize == Min(3 + ((level - 1) \div 5), 8)
  IN [gridSize |-> gridSize,
      numItems |-> gridSize * gridSize,
      complexity |-> 3 + (level \div 2)]

getParams(level) ==
  LET gridSize == Min(3 + ((level - 1) \div 5), 8)
  IN [gridSize |-> gridSize,
      numItems |-> gridSize * gridSize,
      complexity |-> Min(3 + (level \div 2), NumShapes)]

\* generateTrial of the render with this level: a new grid, unless stopped.
generateTrial(s, level) ==
  IF ~s.isPlaying THEN s ELSE [s EXCEPT !.numItems = getParams(level).numItems]

\* No call of onComplete yet.
NoResult ==
  [moduleId |-> "none", durationSeconds |-> 0, level |-> 0, correctCount |-> 0,
   errorCount |-> 0, totalTrials |-> 0, averageReactionTimeMs |-> [n |-> 0, d |-> 1]]

SaccMounted ==
  [level |-> 1, score |-> 0, errors |-> 0, trials |-> 0, isPlaying |-> TRUE,
   isPaused |-> FALSE, numItems |-> 0, reactionTimes |-> <<>>,
   mounted |-> TRUE, result |-> NoResult]

SaccUnmounted == [SaccMounted EXCEPT !.mounted = FALSE]

\* The effect on [generateTrial] runs after the first render.
SaccInit == generateTrial(SaccMounted, SaccMounted.level)

\* The effect on [generateTrial]: generateTrial is memoized on level and
\* isPlaying, so a render with another level generates a trial.
LevelEffect(before, after) ==
  IF after.level # before.level THEN generateTrial(after, after.level) ELSE after

HandleItemClickNoCap(s, isTarget, rt) ==
  IF isTarget
    THEN LET newLevel == IF (s.score + 1) % 3 = 0 THEN s.level + 1 ELSE s.level
             updated == [s EXCEPT !.reactionTimes = Append(@, rt),
                                  !.score = @ + 1,
                                  !.trials = @ + 1,
                                  !.level = newLevel]
         IN LevelEffect(s, generateTrial(updated, s.level))
    ELSE LevelEffect(s, [s EXCEPT !.errors = @ + 1,
                                  !.trials = @ + 1,
                                  !.level = IF s.errors > 0 /\ s.errors % 3 = 0
                                              THEN @ - 1 ELSE @])

handleItemClick(s, isTarget, rt) ==
  IF s.isPaused
    THEN s
    ELSE IF isTarget
      THEN LET newLevel == IF (s.score + 1) % 3 = 0
                             THEN Min(30, s.level + 1) ELSE s.level
               updated == [s EXCEPT !.reactionTimes = Append(@, rt),
                                    !.score = @ + 1,
                                    !.trials = @ + 1,
                                    !.level = newLevel]
           IN LevelEffect(s, generateTrial(updated, s.level))
      ELSE LevelEffect(s, [s EXCEPT !.errors = @ + 1,
                                    !.trials = @ + 1,
                                    !.level = IF s.errors > 0 /\ s.errors % 3 = 0
                                                THEN Max(1, @ - 1) ELSE @])

\* A click on the item that is the target.
SaccTargetClick ==
  /\ sacc.mounted
  /\ ~sacc.isPaused
  /\ sacc.score < MaxSaccScore
  /\ sacc' = handleItemClick(sacc, TRUE, ElapsedMs)

\* A click on one of the other items.
SaccDistractorClick ==
  /\ sacc.mounted
  /\ ~sacc.isPaused
  /\ sacc.errors < MaxSaccErrors
  /\ sacc' = handleItemClick(sacc, FALSE, ElapsedMs)

SaccPauseToggle ==
  /\ sacc.mounted
  /\ sacc' = [sacc EXCEPT !.isPaused = ~@]

(***************************************************************************)
(* finishSession.  The average is a JavaScript number, kept here as the    *)
(* exact quotient of two integers in lowest terms.                         *)
(***************************************************************************)
RECURSIVE GCD(_, _)
GCD(a, b) == IF b = 0 THEN a ELSE GCD(b, a % b)

\* a / b for integers a >= 0 and b > 0.
Divide(a, b) == [n |-> a \div GCD(a, b), d |-> b \div GCD(a, b)]

Zero == Divide(0, 1)

\* reactionTimes.reduce((a, b) => a + b, 0)
RECURSIVE Sum(_)
Sum(list) == IF list = <<>> THEN 0 ELSE list[1] + Sum(Tail(list))

AverageOverOneMore(reactionTimes) ==
  IF Len(reactionTimes) > 0
    THEN Divide(Sum(reactionTimes), Len(reactionTimes) + 1)
    ELSE Zero

AverageRt(reactionTimes) ==
  IF Len(reactionTimes) > 0
    THEN Divide(Sum(reactionTimes), Len(reactionTimes))
    ELSE Zero

\* The modules that collect reaction times; the others report 0.
TimedModules == {"SACC", "REAK", "VIST"}

\* The object finishSession hands to onComplete.
finishSession(moduleId, g) ==
  [moduleId |-> moduleId,
   durationSeconds |-> 0,
   level |-> g.level,
   correctCount |-> g.score,
   errorCount |-> g.errors,
   totalTrials |-> g.trials,
   averageReactionTimeMs |-> IF moduleId \in TimedModules
                               THEN AverageRt(g.reactionTimes) ELSE Zero]

\* onStop of Sacc: onComplete receives the result and App unmounts the module.
SaccFinishSession ==
  /\ sacc.mounted
  /\ sacc' = [sacc EXCEPT !.result = finishSession("SACC", sacc), !.mounted = FALSE]

(***************************************************************************)
(* The GameState of the other modules, as the updaters they pass to        *)
(* setGameState transform it: Correct is the updater of a correct          *)
(* response (with the reaction time the handler appends in Reak and Vist), *)
(* Wrong the updater of an error, a miss or an omission.  What a module    *)
(* shows and when its timers fire is left out here; game holds what        *)
(* finishSession reads.                                                    *)
(***************************************************************************)
GameModules == {"NBACK", "EXPL", "VERB", "PHYS", "SAGU", "VIST", "REAK"}

CorrectWithoutCap(m, p, rt) ==
  [p EXCEPT !.score = @ + 1,
            !.trials = @ + 1,
            !.reactionTimes = IF m \in TimedModules THEN Append(@, rt) ELSE @,
            !.level = CASE m \in {"EXPL", "VERB", "PHYS"} -> p.level + 1
                        [] m \in {"NBACK", "SAGU", "REAK"} ->
                             IF p.score > 0 /\ p.score % 5 = 0 THEN p.level + 1 ELSE p.level
                        [] m = "VIST" ->
                             IF p.score > 0 /\ (p.score + 1) % 5 = 0
                               THEN p.level + 1 ELSE p.level]

Correct(m, p, rt) ==
  [p EXCEPT !.score = @ + 1,
            !.trials = @ + 1,
            !.reactionTimes = IF m \in TimedModules THEN Append(@, rt) ELSE @,
            !.level = CASE m \in {"EXPL", "VERB", "PHYS"} ->
                             IF p.level < 20 THEN p.level + 1 ELSE 20
                        [] m \in {"NBACK", "SAGU"} ->
                             IF p.score > 0 /\ p.score % 5 = 0
                               THEN Min(20, p.level + 1) ELSE p.level
                        [] m = "VIST" ->
                             IF p.score > 0 /\ (p.score + 1) % 5 = 0
                               THEN Min(20, p.level + 1) ELSE p.level
                        [] m = "REAK" ->
                             IF p.score > 0 /\ p.score % 5 = 0
                               THEN p.level + 1 ELSE p.level]

WrongWithoutTrial(m, p) == [p EXCEPT !.errors = @ + 1]

Wrong(m, p) == [p EXCEPT !.errors = @ + 1, !.trials = @ + 1]

GameMounted(m) ==
  [moduleId |-> m, level |-> 1, score |-> 0, errors |-> 0, trials |-> 0,
   reactionTimes |-> <<>>, mounted |-> TRUE, result |-> NoResult]

NoGame == [GameMounted("none") EXCEPT !.mounted = FALSE]

GameCorrect ==
  /\ game.mounted
  /\ game.score < MaxGameScore
  /\ game' = Correct(game.moduleId, game, ElapsedMs)

GameWrong ==
  /\ game.mounted
  /\ game.errors < MaxGameErrors
  /\ game' = Wrong(game.moduleId, game)

GameFinishSession ==
  /\ game.mounted
  /\ game' = [game EXCEPT !.result = finishSession(game.moduleId, game),
                          !.mounted = FALSE]

\* Reactions of different lengths, for the average finishSession reports.
RtValues == {100, 200, 300}

SaccTimedTargetClick ==
  \E rt \in RtValues :
    /\ sacc.mounted
    /\ ~sacc.isPaused
    /\ sacc.score < MaxRts
    /\ sacc' = handleItemClick(sacc, TRUE, rt)

GameTimedCorrect ==
  \E rt \in RtValues :
    /\ game.mounted
    /\ game.score < MaxRts
    /\ game' = Correct(game.moduleId, game, rt)

(***************************************************************************)
(* The item loops of Sacc.generateTrial and Expl.generateLevel, one loop   *)
(* iteration per step.  The list under construction is kept as the number  *)
(* of items pushed, the number of them pushed as targets, and the item     *)
(* pushed last; cand is the pair of indices the current iteration has      *)
(* drawn, rejected says that some draw of the run was thrown away.  The    *)
(* closing shuffle permutes the list and changes none of these.  Expl      *)
(* draws from ExplShapes shapes and ExplColors colours.                    *)
(***************************************************************************)
Look(shape, color) == [shape |-> shape, color |-> color]

Item(look, isTarget) == [shape |-> look.shape, color |-> look.color, isTarget |-> isTarget]

NoItem == [shape |-> 0, color |-> 0, isTarget |-> FALSE]

\* What a run draws from and how much it makes.
SaccPlan(level) ==
  LET p == getParams(level)
  IN [total |-> p.numItems, targetCount |-> 1,
      shapes |-> Min(p.complexity, NumShapes), colors |-> Min(p.complexity, NumColors)]

ExplPlan(level) ==
  LET gridSize == Min(5 + (level \div 2), 10)
      totalItems == gridSize * gridSize
  IN [total |-> totalItems, targetCount |-> Max(3, totalItems \div 5),
      shapes |-> ExplShapes, colors |-> ExplColors]

Plan(g) == IF g.module = "SACC" THEN SaccPlan(g.level) ELSE ExplPlan(g.level)

Looks(g) == {Look(sh, co) : sh \in 1..Plan(g).shapes, co \in 1..Plan(g).colors}

NeverSame(cand, target) == FALSE

\* The condition of the redraw loop.
SameAsTarget(cand, target) ==
  cand.shape = target.shape /\ cand.color = target.color

GenStart(module, level, target) ==
  [module |-> module, level |-> level, target |-> target, phase |-> "targets",
   pushed |-> 0, targets |-> 0, last |-> NoItem, cand |-> target, rejected |-> FALSE]

NoGen == [GenStart("none", 1, Look(0, 0)) EXCEPT !.phase = "idle"]

\* The target is pushed (Sacc), the targets are pushed (Expl); after the last
\* of them the first distractor is drawn.
GenPushTarget ==
  /\ gen.phase = "targets"
  /\ \E first \in Looks(gen) :
       gen' = [gen EXCEPT !.pushed = @ + 1,
                          !.targets = @ + 1,
                          !.last = Item(gen.target, TRUE),
                          !.cand = IF gen.targets + 1 = Plan(gen).targetCount
                                     THEN first ELSE @,
                          !.phase = IF gen.targets + 1 = Plan(gen).targetCount
                                      THEN "distractors" ELSE @]

\* The draw equals the target: both indices are drawn again.
GenRedraw ==
  /\ gen.phase = "distractors"
  /\ SameAsTarget(gen.cand, gen.target)
  /\ \E again \in Looks(gen) :
       gen' = [gen EXCEPT !.cand = again, !.rejected = TRUE]

\* The draw is pushed as a distractor; the next iteration draws, or the loop
\* ends and setItems receives the shuffled list.
GenPushDistractor ==
  /\ gen.phase = "distractors"
  /\ ~SameAsTarget(gen.cand, gen.target)
  /\ \E next \in Looks(gen) :
       gen' = [gen EXCEPT !.pushed = @ + 1,
                          !.last = Item(gen.cand, FALSE),
                          !.cand = IF gen.pushed + 1 < Plan(gen).total THEN next ELSE @,
                          !.phase = IF gen.pushed + 1 < Plan(gen).total
                                      THEN @ ELSE "done"]

(***************************************************************************)
(* Sagu.generateTrial (src/modules/Sagu.tsx).  A grid of nine booleans is  *)
(* the set of its filled cells, so two grids are equal (gridsAreEqual)     *)
(* when the sets are.  Cells are numbered 0..8 as in the source.           *)
(***************************************************************************)
Cells == 0..8

Operations == {"rot90", "rot180", "flipH", "flipV"}

\* TRANSFORMS with the last two entries of rot90 exchanged.
TransformsWithSlip ==
  [rot90 |-> <<6, 3, 0, 7, 4, 1, 8, 2, 5>>,
   rot180 |-> <<8, 7, 6, 5, 4, 3, 2, 1, 0>>,
   flipH |-> <<2, 1, 0, 5, 4, 3, 8, 7, 6>>,
   flipV |-> <<6, 7, 8, 3, 4, 5, 0, 1, 2>>]

TRANSFORMS ==
  [rot90 |-> <<6, 3, 0, 7, 4, 1, 8, 5, 2>>,
   rot180 |-> <<8, 7, 6, 5, 4, 3, 2, 1, 0>>,
   flipH |-> <<2, 1, 0, 5, 4, 3, 8, 7, 6>>,
   flipV |-> <<6, 7, 8, 3, 4, 5, 0, 1, 2>>]

\* newGrid[i] = grid[map[i]]; the tuples above are indexed from 1.
transformGrid(grid, op) == {i \in Cells : TRANSFORMS[op][i + 1] \in grid}

Toggle(grid, i) == IF i \in grid THEN grid \ {i} ELSE grid \cup {i}

\* mutateGrid: a filled cell is emptied, or an empty cell is filled, or (no
\* empty cell) cell 4 is toggled.
mutateGrid(grid) ==
  {grid \ {i} : i \in grid}
  \cup {grid \cup {i} : i \in Cells \ grid}
  \cup (IF Cells \ grid = {} THEN {Toggle(grid, 4)} ELSE {})

\* The base patterns: two, three or four dots on any cells.
Bases == {grid \in SUBSET Cells : Cardinality(grid) \in 2..4}

\* What one sampling attempt can propose: the base, the base under one of
\* the three other operations, or a mutation of the correct grid.
Candidates(base, correct, op) ==
  {base}
  \cup {transformGrid(base, wrongOp) : wrongOp \in Operations \ {op}}
  \cup mutateGrid(correct)

\* The sampling loop makes up to 100 attempts and accepts a candidate that
\* equals no option so far.  It ends with two candidates accepted, or, when
\* every further attempt proposed an option already present, with one or
\* with none (each attempt then proposed the correct grid).
SamplingOutcomes(base, correct, op) ==
  LET fresh == Candidates(base, correct, op) \ {correct}
  IN {<<correct, pair[1], pair[2]>> :
        pair \in {q \in fresh \X fresh : q[1] # q[2]}}
     \cup {<<correct, c1>> : c1 \in fresh}
     \cup (IF correct \in Candidates(base, correct, op) THEN {<<correct>>} ELSE {})

\* One pass of the fallback loop.
Forced(opts, correct) ==
  {IF forced = correct THEN Toggle(forced, 0) ELSE forced :
     forced \in mutateGrid(opts[Len(opts)])}

\* The orders in which the closing sort can leave three options.
Shuffles(opts) ==
  {[i \in 1..Len(opts) |-> opts[perm[i]]] :
     perm \in {f \in [1..Len(opts) -> 1..Len(opts)] :
                 \A i, j \in 1..Len(opts) : i # j => f[i] # f[j]}}

SaguStarting ==
  [phase |-> "start", operation |-> "rot90", pattern |-> {}, correctGrid |-> {},
   opts |-> <<>>, options |-> <<>>]

NoSagu == [SaguStarting EXCEPT !.phase = "idle"]

\* The operation and the base pattern are drawn; a base that the operation
\* maps to itself is drawn again, up to ten times, and the tenth is kept.
SaguDrawPattern ==
  /\ sagu.phase = "start"
  /\ \E selectedOp \in Operations, base \in Bases :
       sagu' = [sagu EXCEPT !.phase = "sampling",
                            !.operation = selectedOp,
                            !.pattern = base,
                            !.correctGrid = transformGrid(base, selectedOp),
                            !.opts = <<transformGrid(base, selectedOp)>>]

SaguSample ==
  /\ sagu.phase = "sampling"
  /\ \E opts \in SamplingOutcomes(sagu.pattern, sagu.correctGrid, sagu.operation) :
       sagu' = [sagu EXCEPT !.opts = opts,
                            !.phase = IF Len(opts) < 3 THEN "forcing" ELSE "shuffle"]

SaguForce ==
  /\ sagu.phase = "forcing"
  /\ \E forced \in Forced(sagu.opts, sagu.correctGrid) :
       sagu' = [sagu EXCEPT !.opts = Append(@, forced),
                            !.phase = IF Len(sagu.opts) + 1 < 3 THEN @ ELSE "shuffle"]

SaguSetOptions ==
  /\ sagu.phase = "shuffle"
  /\ \E shuffled \in Shuffles(sagu.opts) :
       sagu' = [sagu EXCEPT !.options = shuffled, !.phase = "done"]

(***************************************************************************)
(* Phys (src/unnamed/part_004, lines 26-83) and Topo (src/unnamed/part_003,*)
(* lines 40-118).  Neither module keeps the id of a timeout, so timers is  *)
(* the bag of the timeouts that are pending, each with the values its      *)
(* callback closes over.  NumFaces faces stand for the 21 of FACES, and    *)
(* NumCells cells for the 16 of the grid.                                  *)
(***************************************************************************)
Faces == 1..NumFaces

ArmTimeout(timers, t) == timers (+) SetToBag({t})

FireTimeout(timers, t) == timers (-) SetToBag({t})

PhysStartTimeout == [kind |-> "startTrial", target |-> 0]

\* Phys.startTrial: a face to memorize, shown for 2 s.
PhysStartTrial(p, target) ==
  [p EXCEPT !.phase = "memorize",
            !.targetFace = target,
            !.timers = ArmTimeout(@, [kind |-> "viewed", target |-> target])]

handleSelect(p, face) ==
  LET counted ==
        IF face = p.targetFace
          THEN [p EXCEPT !.score = @ + 1, !.trials = @ + 1,
                         !.level = IF p.level < 20 THEN p.level + 1 ELSE 20]
          ELSE [p EXCEPT !.errors = @ + 1, !.trials = @ + 1]
  IN [counted EXCEPT !.timers = ArmTimeout(@, PhysStartTimeout)]

PhysMounted ==
  [mounted |-> TRUE, phase |-> "memorize", targetFace |-> 0, options |-> {},
   level |-> 1, score |-> 0, errors |-> 0, trials |-> 0, timers |-> EmptyBag]

NoPhys == [PhysMounted EXCEPT !.mounted = FALSE]

\* The mount effect calls startTrial.
PhysInits == {PhysStartTrial(PhysMounted, target) : target \in Faces}

\* setTimeout(startTrial, 500)
PhysStartTimer ==
  /\ phys.mounted
  /\ BagIn(PhysStartTimeout, phys.timers)
  /\ \E target \in Faces :
       phys' = PhysStartTrial([phys EXCEPT !.timers = FireTimeout(@, PhysStartTimeout)],
                              target)

\* The 2 s timeout of startTrial: the face is hidden for 1 s.
PhysViewedTimer ==
  /\ phys.mounted
  /\ \E t \in BagToSet(phys.timers) :
       /\ t.kind = "viewed"
       /\ phys' = [phys EXCEPT
            !.phase = "wait",
            !.timers = ArmTimeout(FireTimeout(@, t),
                                  [kind |-> "options", target |-> t.target])]

\* The 1 s timeout: the target and two other faces are offered.  The order
\* of the three buttons plays no part in handleSelect.
PhysOptionsTimer ==
  /\ phys.mounted
  /\ \E t \in BagToSet(phys.timers) :
       /\ t.kind = "options"
       /\ \E opts \in SUBSET Faces :
            /\ t.target \in opts
            /\ Cardinality(opts) = 3
            /\ phys' = [phys EXCEPT !.options = opts,
                                    !.phase = "select",
                                    !.timers = FireTimeout(@, t)]

\* A click on one of the three buttons, which are shown while phase is select.
PhysSelect ==
  /\ phys.mounted
  /\ phys.phase = "select"
  /\ phys.trials < MaxPhysTrials
  /\ \E face \in phys.options : phys' = handleSelect(phys, face)

\* finishSession: onComplete makes App unmount the module.
PhysFinishSession ==
  /\ phys.mounted
  /\ phys' = [phys EXCEPT !.mounted = FALSE]

\* Topo.  items is the list of the cells of the items shown; targetItem is an
\* index into it, from 0, or -1 for null.
TopoCells == 0..(NumCells - 1)

ItemCount(level) == Min(2 + (level \div 2), 5)

\* The positions the do-while loop of startTrial can draw: count distinct cells.
Placements(count) ==
  {s \in [1..count -> TopoCells] : \A i, j \in 1..count : i # j => s[i] # s[j]}

\* Topo.startTrial, run from a render in which gameState.level was level.
TopoStartTrial(p, level, newItems) ==
  [p EXCEPT !.phase = "memorize",
            !.items = newItems,
            !.timers = ArmTimeout(@, [kind |-> "recall", level |-> level,
                                      count |-> Len(newItems)])]

TopoStartTimeout(level) == [kind |-> "startTrial", level |-> level, count |-> 0]

TopoStartPending(p) == \E t \in BagToSet(p.timers) : t.kind = "startTrial"

handleCellClick(p, cell) ==
  IF p.phase # "recall" \/ p.targetItem = -1
    THEN p
  ELSE IF p.targetItem >= Len(p.items)
    THEN p             \* items[targetItem] is undefined: target.r throws
  ELSE IF p.items[p.targetItem + 1] = cell
    THEN [p EXCEPT !.score = @ + 1, !.trials = @ + 1, !.level = @ + 1,
                   !.phase = "memorize",
                   !.timers = ArmTimeout(@, TopoStartTimeout(p.level))]
    ELSE [p EXCEPT !.errors = @ + 1, !.trials = @ + 1,
                   !.timers = ArmTimeout(@, TopoStartTimeout(p.level))]

TopoMounted ==
  [mounted |-> TRUE, phase |-> "memorize", items |-> <<>>, targetItem |-> -1,
   level |-> 1, score |-> 0, errors |-> 0, trials |-> 0, timers |-> EmptyBag]

NoTopo == [TopoMounted EXCEPT !.mounted = FALSE]

TopoInits ==
  {TopoStartTrial(TopoMounted, 1, newItems) : newItems \in Placements(ItemCount(1))}

\* setTimeout(startTrial, 1000) or setTimeout(startTrial, 500)
TopoStartTimer ==
  /\ topo.mounted
  /\ \E t \in BagToSet(topo.timers) :
       /\ t.kind = "startTrial"
       /\ \E newItems \in Placements(ItemCount(t.level)) :
            topo' = TopoStartTrial([topo EXCEPT !.timers = FireTimeout(@, t)],
                                   t.level, newItems)

\* The memorize timeout of startTrial: one of its items is asked for.
TopoRecallTimer ==
  /\ topo.mounted
  /\ \E t \in BagToSet(topo.timers) :
       /\ t.kind = "recall"
       /\ \E idx \in 0..(t.count - 1) :
            topo' = [topo EXCEPT !.phase = "recall",
                                 !.targetItem = idx,
                                 !.timers = FireTimeout(@, t)]

TopoCellClick ==
  /\ topo.mounted
  /\ topo.trials < MaxTopoTrials
  /\ \E cell \in TopoCells :
       /\ topo' = handleCellClick(topo, cell)
       /\ topo' # topo

TopoFinishSession ==
  /\ topo.mounted
  /\ topo' = [topo EXCEPT !.mounted = FALSE]

(***************************************************************************)
(* Expl (src/modules/Expl.tsx, lines 40-141).  The grid is kept as the     *)
(* number of its items, of its targets and of the targets found; the loop  *)
(* that builds it is modelled item by item above.  A click handler runs    *)
(* together with the render and the level effect that follow it.  timers   *)
(* is the bag of the pending setTimeout(generateLevel, 500), each with the *)
(* level that the generateLevel it calls closes over.                      *)
(***************************************************************************)
\* generateLevel, of a render in which gameState.level was level.
generateLevel(e, level) ==
  [e EXCEPT !.total = ExplPlan(level).total,
            !.targets = ExplPlan(level).targetCount,
            !.found = 0]

\* useEffect(() => generateLevel(), [gameState.level]) after an update.
ExplLevelEffect(before, after) ==
  IF after.level # before.level THEN generateLevel(after, after.level) ELSE after

\* Expl.handleItemClick on an item that is found, an unfound target, or a
\* distractor.
ExplHandleItemClick(e, kind) ==
  IF kind = "found"
    THEN e
  ELSE IF kind = "target"
    THEN IF e.found + 1 = e.targets
           THEN [e EXCEPT !.found = @ + 1,
                          !.score = @ + 1,
                          !.trials = @ + 1,
                          !.level = IF e.level < 20 THEN e.level + 1 ELSE 20,
                          !.timers = ArmTimeout(@, [kind |-> "generateLevel",
                                                    level |-> e.level])]
           ELSE [e EXCEPT !.found = @ + 1]
    ELSE [e EXCEPT !.errors = @ + 1, !.trials = @ + 1]

ExplMounted ==
  [mounted |-> TRUE, level |-> 1, score |-> 0, errors |-> 0, trials |-> 0,
   total |-> 0, targets |-> 0, found |-> 0, timers |-> EmptyBag]

NoExpl == [ExplMounted EXCEPT !.mounted = FALSE]

\* The level effect runs after the first render.
ExplInit == generateLevel(ExplMounted, 1)

\* The kinds of item that the grid holds.
ExplKinds(e) ==
  (IF e.found > 0 THEN {"found"} ELSE {})
  \cup (IF e.found < e.targets THEN {"target"} ELSE {})
  \cup (IF e.targets < e.total THEN {"distractor"} ELSE {})

ExplItemClick ==
  /\ expl.mounted
  /\ expl.trials < MaxExplTrials
  /\ \E kind \in ExplKinds(expl) :
       expl' = ExplLevelEffect(expl, ExplHandleItemClick(expl, kind))

\* setTimeout(generateLevel, 500)
ExplGenerateTimer ==
  /\ expl.mounted
  /\ \E t \in BagToSet(expl.timers) :
       expl' = generateLevel([expl EXCEPT !.timers = FireTimeout(@, t)], t.level)

ExplFinishSession ==
  /\ expl.mounted
  /\ expl' = [expl EXCEPT !.mounted = FALSE]

(***************************************************************************)
(* Plan (src/modules/Plan.tsx, lines 21-120).  nodes[i] is the node with   *)
(* id i - 1 and order i; its position and its label play no part in the    *)
(* handlers.  Every update is issued in a click handler, which runs        *)
(* together with the render and the level effect that follow it.           *)
(***************************************************************************)
\* startLevel, of a render in which gameState.level was level.
startLevel(p, level) ==
  IF ~p.isMounted
    THEN p
    ELSE LET count == Min(4 + level, 12)
         IN [p EXCEPT !.mode = IF level >= 5 THEN "mix" ELSE "num",
                      !.nodes = [i \in 1..count |-> [order |-> i, completed |-> FALSE]],
                      !.nextOrder = 1]

\* The level effect: its cleanup, then isMounted.current = true and startLevel.
PlanLevelEffect(before, after) ==
  IF after.level # before.level
    THEN startLevel([after EXCEPT !.isMounted = TRUE], after.level)
    ELSE after

\* handleNodeClick that completes whichever node is clicked.
HandleNodeClickAnyOrder(p, order) ==
  IF p.isPaused \/ ~p.isMounted
    THEN p
    ELSE LET done == [p EXCEPT !.nodes[order].completed = TRUE,
                              !.nextOrder = @ + 1]
         IN IF p.nextOrder = Len(p.nodes)
              THEN [done EXCEPT !.score = @ + 1, !.trials = @ + 1, !.level = @ + 1]
              ELSE done

handleNodeClick(p, order) ==
  IF p.isPaused \/ ~p.isMounted
    THEN p
  ELSE IF order = p.nextOrder
    THEN LET done == [p EXCEPT !.nodes[order].completed = TRUE,
                              !.nextOrder = @ + 1]
         IN IF p.nextOrder = Len(p.nodes)
              THEN [done EXCEPT !.score = @ + 1, !.trials = @ + 1, !.level = @ + 1]
              ELSE done
    ELSE [p EXCEPT !.errors = @ + 1, !.trials = @ + 1]

PlanMounted ==
  [mounted |-> TRUE, isMounted |-> TRUE, level |-> 1, score |-> 0, errors |-> 0,
   trials |-> 0, isPaused |-> FALSE, nodes |-> <<>>, nextOrder |-> 1, mode |-> "num"]

NoPlan == [PlanMounted EXCEPT !.mounted = FALSE]

PlanInit == startLevel(PlanMounted, 1)

\* A click on a node button; the button of a completed node is disabled.
\* The pause overlay does not stop the click from reaching handleNodeClick
\* in the model: the handler's own guard does.
PlanNodeClick ==
  /\ plan.mounted
  /\ plan.trials < MaxPlanTrials
  /\ \E order \in 1..Len(plan.nodes) :
       /\ ~plan.nodes[order].completed
       /\ plan' = PlanLevelEffect(plan, handleNodeClick(plan, order))

PlanPauseToggle ==
  /\ plan.mounted
  /\ plan' = [plan EXCEPT !.isPaused = ~@]

\* finishSession: onComplete makes App unmount the module.
PlanFinishSession ==
  /\ plan.mounted
  /\ plan' = [plan EXCEPT !.mounted = FALSE, !.isMounted = FALSE]

(***************************************************************************)
(* The specifications: one per part of the program.  The parts share no    *)
(* state, so each specification runs one part and leaves the others as     *)
(* they are after construction.                                            *)
(***************************************************************************)
InitStorage ==
  /\ store \in [users : {Absent, Malformed, ArrayText(<<>>)},
                 sessions : {Absent, Malformed, ArrayText(<<>>)}]
  /\ call = NoCall
  /\ app = AppInit
  /\ reak = ReakInit
  /\ vigi = VigiInit
  /\ nback = NbackInit
  /\ corsi = CorsiInit
  /\ sacc = SaccUnmounted
  /\ game = NoGame
  /\ gen = NoGen
  /\ sagu = NoSagu
  /\ phys = NoPhys /\ topo = NoTopo /\ expl = NoExpl /\ plan = NoPlan

FrameStorage == UNCHANGED <<app, reak, vigi, nback, corsi, sacc, game, gen, sagu, phys, topo, expl, plan>>

NextStorage ==
  \/ GetUsersCall /\ FrameStorage
  \/ AddUserCall /\ FrameStorage
  \/ DeleteUserCall /\ FrameStorage
  \/ SaveSessionCall /\ FrameStorage
  \/ GetUserSessionsCall /\ FrameStorage
  \/ GetAllDataCall /\ FrameStorage
  \/ ImportDataCall /\ FrameStorage

SpecStorage == InitStorage /\ [][NextStorage]_vars

InitApp ==
  /\ store = EmptyStore
  /\ call = NoCall
  /\ app = AppInit
  /\ reak = ReakInit
  /\ vigi = VigiInit
  /\ nback = NbackInit
  /\ corsi = CorsiInit
  /\ sacc = SaccUnmounted
  /\ game = NoGame
  /\ gen = NoGen
  /\ sagu = NoSagu
  /\ phys = NoPhys /\ topo = NoTopo /\ expl = NoExpl /\ plan = NoPlan

FrameApp == UNCHANGED <<call, reak, vigi, nback, corsi, sacc, game, gen, sagu, phys, topo, expl, plan>>

NextApp ==
  \/ AppLogin /\ FrameApp
  \/ AppLogout /\ FrameApp
  \/ AppCreateUser /\ FrameApp
  \/ AppDeleteUser /\ FrameApp
  \/ AppChooseImportFile /\ FrameApp
  \/ AppImportLoaded /\ FrameApp
  \/ AppShowDashboard /\ FrameApp
  \/ AppBackToMenu /\ FrameApp
  \/ AppStartModule /\ FrameApp
  \/ AppCountdownTimer /\ FrameApp
  \/ AppCountdownDone /\ FrameApp
  \/ AppModuleComplete /\ FrameApp
  \/ AppClock /\ FrameApp

SpecApp == InitApp /\ [][NextApp]_vars

InitReak ==
  /\ store = EmptyStore
  /\ call = NoCall
  /\ app = AppInit
  /\ reak = ReakInit
  /\ vigi = VigiInit
  /\ nback = NbackInit
  /\ corsi = CorsiInit
  /\ sacc = SaccUnmounted
  /\ game = NoGame
  /\ gen = NoGen
  /\ sagu = NoSagu
  /\ phys = NoPhys /\ topo = NoTopo /\ expl = NoExpl /\ plan = NoPlan

FrameReak == UNCHANGED <<store, call, app, vigi, nback, corsi, sacc, game, gen, sagu, phys, topo, expl, plan>>

NextReak ==
  \/ ReakStimulusTimer /\ FrameReak
  \/ ReakMissTimer /\ FrameReak
  \/ ReakFeedbackTimer /\ FrameReak
  \/ ReakHandleAction /\ FrameReak
  \/ ReakRender /\ FrameReak
  \/ ReakPauseToggle /\ FrameReak
  \/ ReakFinishSession /\ FrameReak

SpecReak == InitReak /\ [][NextReak]_vars

InitVigi ==
  /\ store = EmptyStore
  /\ call = NoCall
  /\ app = AppInit
  /\ reak = ReakInit
  /\ vigi \in VigiInits
  /\ nback = NbackInit
  /\ corsi = CorsiInit
  /\ sacc = SaccUnmounted
  /\ game = NoGame
  /\ gen = NoGen
  /\ sagu = NoSagu
  /\ phys = NoPhys /\ topo = NoTopo /\ expl = NoExpl /\ plan = NoPlan

FrameVigi == UNCHANGED <<store, call, app, reak, nback, corsi, sacc, game, gen, sagu, phys, topo, expl, plan>>

NextVigi ==
  \/ VigiDisplayTimer /\ FrameVigi
  \/ VigiBlankTimer /\ FrameVigi
  \/ VigiHandlePress /\ FrameVigi
  \/ VigiPauseToggle /\ FrameVigi
  \/ VigiFinishSession /\ FrameVigi

SpecVigi == InitVigi /\ [][NextVigi]_vars

InitNback ==
  /\ store = EmptyStore
  /\ call = NoCall
  /\ app = AppInit
  /\ reak = ReakInit
  /\ vigi = VigiInit
  /\ nback = NbackInit
  /\ corsi = CorsiInit
  /\ sacc = SaccUnmounted
  /\ game = NoGame
  /\ gen = NoGen
  /\ sagu = NoSagu
  /\ phys = NoPhys /\ topo = NoTopo /\ expl = NoExpl /\ plan = NoPlan

FrameNback == UNCHANGED <<store, call, app, reak, vigi, corsi, sacc, game, gen, sagu, phys, topo, expl, plan>>

NextNback ==
  \/ NbackDisplayTimer /\ FrameNback
  \/ NbackBlankTimer /\ FrameNback
  \/ NbackHandleMatch /\ FrameNback
  \/ NbackRender /\ FrameNback
  \/ NbackPauseToggle /\ FrameNback
  \/ NbackFinishSession /\ FrameNback

SpecNback == InitNback /\ [][NextNback]_vars

InitCorsi ==
  /\ store = EmptyStore
  /\ call = NoCall
  /\ app = AppInit
  /\ reak = ReakInit
  /\ vigi = VigiInit
  /\ nback = NbackInit
  /\ corsi \in CorsiInits
  /\ sacc = SaccUnmounted
  /\ game = NoGame
  /\ gen = NoGen
  /\ sagu = NoSagu
  /\ phys = NoPhys /\ topo = NoTopo /\ expl = NoExpl /\ plan = NoPlan

FrameCorsi == UNCHANGED <<store, call, app, reak, vigi, nback, sacc, game, gen, sagu, phys, topo, expl, plan>>

NextCorsi ==
  \/ CorsiIntervalTick /\ FrameCorsi
  \/ CorsiHighlightOff /\ FrameCorsi
  \/ CorsiNextTrialTimer /\ FrameCorsi
  \/ CorsiBlockClick /\ FrameCorsi
  \/ CorsiRender /\ FrameCorsi
  \/ CorsiPauseToggle /\ FrameCorsi
  \/ CorsiFinishSession /\ FrameCorsi

SpecCorsi == InitCorsi /\ [][NextCorsi]_vars

\* One session of one module: the module that App mounted runs, the others
\* are not mounted.
ReakUnmounted == [ReakInit EXCEPT !.isMounted = FALSE, !.timers = {}]
VigiUnmounted == [VigiMounted EXCEPT !.mounted = FALSE, !.isPlaying = FALSE]
NbackUnmounted == [NbackMounted EXCEPT !.mounted = FALSE]
CorsiUnmounted == [CorsiMounted EXCEPT !.finished = TRUE]

Sessions == {"Sacc", "Reak", "Vigi", "Nback", "Corsi", "game"}

InitSession ==
  /\ store = EmptyStore
  /\ call = NoCall
  /\ app = AppInit
  /\ \E which \in Sessions :
       /\ reak = IF which = "Reak" THEN ReakInit ELSE ReakUnmounted
       /\ vigi \in IF which = "Vigi" THEN VigiInits ELSE {VigiUnmounted}
       /\ nback = IF which = "Nback" THEN NbackInit ELSE NbackUnmounted
       /\ corsi \in IF which = "Corsi" THEN CorsiInits ELSE {CorsiUnmounted}
       /\ sacc = IF which = "Sacc" THEN SaccInit ELSE SaccUnmounted
       /\ game \in IF which = "game"
                     THEN {GameMounted(m) : m \in GameModules} ELSE {NoGame}
  /\ gen = NoGen
  /\ sagu = NoSagu
  /\ phys = NoPhys /\ topo = NoTopo /\ expl = NoExpl /\ plan = NoPlan

FrameSacc == UNCHANGED <<store, call, app, reak, vigi, nback, corsi, game, gen, sagu, phys, topo, expl, plan>>

FrameGame == UNCHANGED <<store, call, app, reak, vigi, nback, corsi, sacc, gen, sagu, phys, topo, expl, plan>>

NextSession ==
  \/ SaccTargetClick /\ FrameSacc
  \/ SaccDistractorClick /\ FrameSacc
  \/ SaccPauseToggle /\ FrameSacc
  \/ SaccFinishSession /\ FrameSacc
  \/ GameCorrect /\ FrameGame
  \/ GameWrong /\ FrameGame
  \/ GameFinishSession /\ FrameGame
  \/ ReakStimulusTimer /\ FrameReak
  \/ ReakMissTimer /\ FrameReak
  \/ ReakFeedbackTimer /\ FrameReak
  \/ ReakHandleAction /\ FrameReak
  \/ ReakRender /\ FrameReak
  \/ ReakPauseToggle /\ FrameReak
  \/ ReakFinishSession /\ FrameReak
  \/ VigiDisplayTimer /\ FrameVigi
  \/ VigiBlankTimer /\ FrameVigi
  \/ VigiHandlePress /\ FrameVigi
  \/ VigiPauseToggle /\ FrameVigi
  \/ VigiFinishSession /\ FrameVigi
  \/ NbackDisplayTimer /\ FrameNback
  \/ NbackBlankTimer /\ FrameNback
  \/ NbackHandleMatch /\ FrameNback
  \/ NbackRender /\ FrameNback
  \/ NbackPauseToggle /\ FrameNback
  \/ NbackFinishSession /\ FrameNback
  \/ CorsiIntervalTick /\ FrameCorsi
  \/ CorsiHighlightOff /\ FrameCorsi
  \/ CorsiNextTrialTimer /\ FrameCorsi
  \/ CorsiBlockClick /\ FrameCorsi
  \/ CorsiRender /\ FrameCorsi
  \/ CorsiPauseToggle /\ FrameCorsi
  \/ CorsiFinishSession /\ FrameCorsi

SpecSession == InitSession /\ [][NextSession]_vars

\* Short sessions of the modules that collect reaction times, with reactions
\* of different lengths.
InitFinish ==
  /\ store = EmptyStore
  /\ call = NoCall
  /\ app = AppInit
  /\ reak = ReakUnmounted
  /\ vigi = VigiUnmounted
  /\ nback = NbackUnmounted
  /\ corsi = CorsiUnmounted
  /\ \E which \in {"Sacc", "game"} :
       /\ sacc = IF which = "Sacc" THEN SaccInit ELSE SaccUnmounted
       /\ game \in IF which = "game"
                     THEN {GameMounted(m) : m \in TimedModules \ {"SACC"}} ELSE {NoGame}
  /\ gen = NoGen
  /\ sagu = NoSagu
  /\ phys = NoPhys /\ topo = NoTopo /\ expl = NoExpl /\ plan = NoPlan

NextFinish ==
  \/ SaccTimedTargetClick /\ FrameSacc
  \/ SaccDistractorClick /\ FrameSacc
  \/ SaccPauseToggle /\ FrameSacc
  \/ SaccFinishSession /\ FrameSacc
  \/ GameTimedCorrect /\ FrameGame
  \/ GameWrong /\ FrameGame
  \/ GameFinishSession /\ FrameGame

SpecFinish == InitFinish /\ [][NextFinish]_vars

\* Runs of the two generators, for levels up to MaxGenLevel and every target.
GenInputs ==
  {GenStart(module, level, Look(0, 0)) :
     module \in {"SACC", "EXPL"}, level \in 1..MaxGenLevel}

InitGen ==
  /\ store = EmptyStore
  /\ call = NoCall
  /\ app = AppInit
  /\ reak = ReakUnmounted
  /\ vigi = VigiUnmounted
  /\ nback = NbackUnmounted
  /\ corsi = CorsiUnmounted
  /\ sacc = SaccUnmounted
  /\ game = NoGame
  /\ \E g \in GenInputs :
       \E target \in Looks(g) :
         gen = [g EXCEPT !.target = target, !.cand = target]
  /\ sagu = NoSagu
  /\ phys = NoPhys /\ topo = NoTopo /\ expl = NoExpl /\ plan = NoPlan

FrameGen == UNCHANGED <<store, call, app, reak, vigi, nback, corsi, sacc, game, sagu, phys, topo, expl, plan>>

NextGen ==
  \/ GenPushTarget /\ FrameGen
  \/ GenRedraw /\ FrameGen
  \/ GenPushDistractor /\ FrameGen

SpecGen == InitGen /\ [][NextGen]_vars

InitSagu ==
  /\ store = EmptyStore
  /\ call = NoCall
  /\ app = AppInit
  /\ reak = ReakUnmounted
  /\ vigi = VigiUnmounted
  /\ nback = NbackUnmounted
  /\ corsi = CorsiUnmounted
  /\ sacc = SaccUnmounted
  /\ game = NoGame
  /\ gen = NoGen
  /\ sagu = SaguStarting
  /\ phys = NoPhys /\ topo = NoTopo /\ expl = NoExpl /\ plan = NoPlan

FrameSagu == UNCHANGED <<store, call, app, reak, vigi, nback, corsi, sacc, game, gen, phys, topo, expl, plan>>

NextSagu ==
  \/ SaguDrawPattern /\ FrameSagu
  \/ SaguSample /\ FrameSagu
  \/ SaguForce /\ FrameSagu
  \/ SaguSetOptions /\ FrameSagu

SpecSagu == InitSagu /\ [][NextSagu]_vars

(***************************************************************************)
(* Properties of storage, checked under SpecStorage.  call holds the last  *)
(* call: its operation, its argument, the store before it, and what it     *)
(* returned; store is the store after it.                                  *)
(***************************************************************************)
StoredSessions(st) == JSONParse(GetItemOrEmpty(st.sessions)).val

SessionsParse(st) == JSONParse(GetItemOrEmpty(st.sessions)).ok

\* C7: deleteUser(u) removes user u and every session whose userId is u from
\* the persisted collections, and keeps every other user and every session of
\* another user, in their original order.
C7_DeleteUserCascade ==
  (call.op = "deleteUser" /\ SessionsParse(call.pre)) =>
    LET u == call.arg
        Other(x) == x.id # u
        OfOther(x) == x.userId # u
    IN /\ \A x \in Range(getUsers(store)) : x.id # u
       /\ \A x \in Range(StoredSessions(store)) : x.userId # u
       /\ getUsers(store) = SelectSeq(getUsers(call.pre), Other)
       /\ SessionsParse(store)
       /\ StoredSessions(store) = SelectSeq(StoredSessions(call.pre), OfOther)

\* deleteUser has just removed a user and one of two sessions, and has kept
\* another user and that user's session.
C7_Witness ==
  /\ call.op = "deleteUser"
  /\ Len(getUsers(call.pre)) = 2
  /\ Len(getUsers(store)) = 1
  /\ SessionsParse(call.pre)
  /\ Len(StoredSessions(call.pre)) = 2
  /\ Len(StoredSessions(store)) = 1

\* JSON text keeps a number only when it is finite.
Serializable(data) ==
  /\ \A x \in Range(data.users) : x.createdAt.t = "num"
  /\ \A x \in Range(data.sessions) : x.timestamp.t = "num"

ImportedArrays == call.op = "importData" /\ call.ret = TRUE

\* C8 as stated: after importData(snapshot) with two arrays, getAllData()
\* returns users and sessions equal to the imported ones.
C8_RoundTripAnySnapshot ==
  ImportedArrays =>
    LET out == getAllData(store)
    IN /\ ~out.threw
       /\ out.users = call.arg.users
       /\ out.sessions = call.arg.sessions

\* C8, amended: the round trip holds for every snapshot whose numbers are
\* finite, whatever the storage held before.
C8_RoundTripSerializable ==
  (ImportedArrays /\ Serializable(call.arg)) =>
    LET out == getAllData(store)
    IN /\ ~out.threw
       /\ out.users = call.arg.users
       /\ out.sessions = call.arg.sessions

\* A snapshot of two users and two sessions has been imported over storage
\* that held malformed sessions, and getAllData returns the same arrays.
C8_Witness ==
  /\ ImportedArrays
  /\ Serializable(call.arg)
  /\ Len(call.arg.users) = 2
  /\ Len(call.arg.sessions) = 2
  /\ call.pre.sessions = Malformed
  /\ getAllData(store).sessions = call.arg.sessions

\* The store with every malformed value replaced by the text of an empty array.
AsIfEmpty(st) ==
  [users |-> IF st.users = Malformed THEN ArrayText(<<>>) ELSE st.users,
   sessions |-> IF st.sessions = Malformed THEN ArrayText(<<>>) ELSE st.sessions]

\* What a call returns and what the store then holds, as the readers see it.
Outcome(op, arg, st) ==
  LET after == IF op = "saveSession" THEN saveSession(st, arg)
               ELSE IF op = "deleteUser" THEN deleteUser(st, arg)
               ELSE st
      ret == IF op = "getUsers" THEN getUsers(st)
             ELSE IF op = "getUserSessions" THEN getUserSessions(st, arg)
             ELSE IF op = "getAllData"
               THEN [users |-> getAllData(st).users, sessions |-> getAllData(st).sessions]
             ELSE ""
  IN [ret |-> ret, users |-> getUsers(after), sessions |-> StoredSessions(after)]

\* C9: with a malformed users or sessions value in the store, getUsers,
\* getUserSessions, getAllData, saveSession and deleteUser do not throw and
\* behave as they do on a store where that collection is empty.
C9_MalformedReadAsEmpty ==
  (/\ call.op \in {"getUsers", "getUserSessions", "getAllData", "saveSession", "deleteUser"}
   /\ (call.pre.users = Malformed \/ call.pre.sessions = Malformed)) =>
    /\ ~call.threw
    /\ [ret |-> call.ret, users |-> getUsers(store), sessions |-> StoredSessions(store)]
         = Outcome(call.op, call.arg, AsIfEmpty(call.pre))

C1_OneOutcomePerTrial ==
  /\ reak.trials \in {reak.started - 1, reak.started}
  /\ reak.score + reak.errors = reak.trials

\* C5: while the Reak session stays paused, no step changes status, score,
\* errors or trials.
C5_PausedReakIsQuiet ==
  [][(reak.isPaused /\ reak'.isPaused) =>
       /\ reak'.status = reak.status
       /\ reak'.score = reak.score
       /\ reak'.errors = reak.errors
       /\ reak'.trials = reak.trials]_vars

\* C2: in the blank interval after the display timer of a Vigi stimulus has
\* run, a press changes neither score nor errors nor trials.
C2_PressAfterTimeoutIgnored ==
  [][(vigi.currentItem = "none" /\ ~vigi.vigiResponded /\ vigi'.vigiResponded) =>
       /\ vigi'.score = vigi.score
       /\ vigi'.errors = vigi.errors
       /\ vigi'.trials = vigi.trials]_vars

\* C4: while Vigi is paused no timer of the trial loop is armed, and at no
\* time is more than one timer of the loop armed.
C4_PauseGatesScheduling ==
  /\ vigi.isPaused => vigi.timers = {}
  /\ Cardinality(vigi.timers) <= 1

\* C3: at most one outcome is committed for a displayed Nback stimulus, and
\* at most one timer of the loop is armed, pauses and resumes included.
C3_OneOutcomePerStimulus ==
  /\ nback.committed <= 1
  /\ Cardinality(nback.timers) <= 1

\* C6: after Corsi's finishSession has called onComplete, no step sets
\* activeBlock, phase, sequence or level, and no timer is left armed.
C6_FinishCancelsTimers ==
  [][corsi.finished =>
       /\ corsi.timers = {}
       /\ corsi'.activeBlock = corsi.activeBlock
       /\ corsi'.phase = corsi.phase
       /\ corsi'.sequence = corsi.sequence
       /\ corsi'.level = corsi.level]_vars

\* C14: an Nback stimulus that prepareAndShowNext marked as a non-target and
\* that has at least N stimuli before it differs from the icon N positions
\* earlier in the history.
C14_DistractorDiffersFromTarget ==
  LET h == nback.history
      n == getN(nback.level)
  IN (/\ nback.currentIconIdx # 0
      /\ ~nback.isCurrentTarget
      /\ Len(h) - 1 >= n)
       => h[Len(h)] # h[Len(h) - n]

\* C20: storage.getUserSessions(u) returns the persisted sessions whose userId
\* is u, each as often as it is stored and no other, in descending order of
\* timestamp (a null timestamp counts as 0 in the comparator's subtraction),
\* and leaves the storage as it was.
OccurrencesIn(list, s) == Cardinality({i \in 1..Len(list) : list[i] = s})

C20_UserSessionsSorted ==
  call.op = "getUserSessions" =>
    LET ret == call.ret
        His(s) == s.userId = call.arg
        his == SelectSeq(StoredSessions(call.pre), His)
    IN /\ store = call.pre
       /\ ~call.threw
       /\ \A s \in Range(ret) \cup Range(his) :
            OccurrencesIn(ret, s) = OccurrencesIn(his, s)
       /\ \A i, j \in 1..Len(ret) :
            i < j => TimestampValue(ret[i]) >= TimestampValue(ret[j])

\* A call that had to reorder the sessions of u and to leave out another
\* user's session.
C20_Witness ==
  /\ call.op = "getUserSessions"
  /\ Len(call.ret) >= 2
  /\ call.ret # GetUserSessionsUnsorted(call.pre, call.arg)
  /\ Len(call.ret) < Len(StoredSessions(call.pre))

\* C18: in a Reak session the level is 1 + floor(k / 5) after k correct
\* responses (score counts them), whatever errors and misses fell between.
C18_LevelEveryFifthCorrect ==
  reak.level = 1 + (reak.score \div 5)

(***************************************************************************)
(* Properties of the sessions, checked under SpecSession and SpecFinish.   *)
(***************************************************************************)

\* C16: at every level L of a Sacc session (1..30), getParams(L) is
\* gridSize = min(3 + floor((L-1)/5), 8), numItems = gridSize^2 and
\* complexity = min(3 + floor(L/2), 10), the grid on display has numItems
\* items, and no parameter is below its value at level L - 1.
C16_DifficultyCurve ==
  sacc.mounted =>
    LET L == sacc.level
        p == getParams(L)
        q == getParams(L - 1)
        g == 3 + ((L - 1) \div 5)
        c == 3 + (L \div 2)
    IN /\ L \in 1..30
       /\ p.gridSize = (IF g < 8 THEN g ELSE 8)
       /\ p.numItems = p.gridSize * p.gridSize
       /\ p.complexity = (IF c < 10 THEN c ELSE 10)
       /\ sacc.numItems = p.numItems
       /\ L >= 2 => /\ p.gridSize >= q.gridSize
                    /\ p.numItems >= q.numItems
                    /\ p.complexity >= q.complexity

\* The last level, where the cap of complexity has long been reached.
C16_Witness ==
  /\ sacc.mounted
  /\ sacc.level = 30
  /\ sacc.numItems = 64
  /\ getParams(sacc.level).complexity = 10

\* C17: a click on the Sacc target adds 1 to score and to trials and raises
\* the level by 1 exactly when the new score is a multiple of 3 and the level
\* is below 30; a click on a distractor adds 1 to errors and to trials, keeps
\* score, and leaves the level where it was or lower, never below 1.
C17_SaccClickRules ==
  [][sacc'.trials # sacc.trials =>
       \/ /\ sacc'.score = sacc.score + 1
          /\ sacc'.trials = sacc.trials + 1
          /\ sacc'.errors = sacc.errors
          /\ sacc'.level = IF sacc'.score % 3 = 0 /\ sacc.level < 30
                             THEN sacc.level + 1 ELSE sacc.level
          /\ sacc'.level <= 30
       \/ /\ sacc'.errors = sacc.errors + 1
          /\ sacc'.trials = sacc.trials + 1
          /\ sacc'.score = sacc.score
          /\ sacc'.level <= sacc.level
          /\ sacc'.level >= 1]_vars

\* Four errors at level 1, then correct answers up to the cap and past it.
C17_Witness ==
  /\ sacc.errors >= 4
  /\ sacc.score >= 90
  /\ sacc.level = 30

\* C19: the level of a session is at least 1, at most 30 in Sacc and at most
\* 20 in Nback, Expl, Verb, Phys, Sagu and Vist; the level of Corsi is at
\* least 1.
C19_LevelWithinBounds ==
  /\ sacc.level >= 1 /\ sacc.level <= 30
  /\ nback.level >= 1 /\ nback.level <= 20
  /\ game.level >= 1
  /\ game.moduleId \in {"NBACK", "EXPL", "VERB", "PHYS", "SAGU", "VIST"}
       => game.level <= 20
  /\ corsi.level >= 1
  /\ reak.level >= 1
  /\ vigi.level >= 1

\* A session that has reached the cap and gone on.
C19_Witness ==
  /\ game.moduleId = "NBACK"
  /\ game.level = 20
  /\ game.score > 101

\* C11: in every state of every session trials = score + errors; a step that
\* changes one of the three counters adds 1 to trials and 1 to exactly one
\* of score and errors.
Counters == <<reak, vigi, nback, corsi, sacc, game>>

Resolved(c, d) ==
  \/ /\ d.trials = c.trials
     /\ d.score = c.score
     /\ d.errors = c.errors
  \/ /\ d.trials = c.trials + 1
     /\ \/ d.score = c.score + 1 /\ d.errors = c.errors
        \/ d.errors = c.errors + 1 /\ d.score = c.score

C11_TrialsAreScorePlusErrors ==
  /\ [](\A i \in 1..Len(Counters) :
          Counters[i].trials = Counters[i].score + Counters[i].errors)
  /\ [][\A i \in 1..Len(Counters) : Resolved(Counters[i], Counters'[i])]_vars

\* An Nback session with an omission or a false alarm and with a hit.
C11_Witness ==
  /\ nback.errors >= 1
  /\ nback.score >= 1
  /\ nback.trials = nback.score + nback.errors

\* C12: the result finishSession hands over carries level, score, errors and
\* trials of the session as level, correctCount, errorCount and totalTrials,
\* and as averageReactionTimeMs 0 when no reaction time was collected and
\* otherwise the sum of the reaction times over their number; [100, 200,
\* 300] gives 200.
ReportsSession(moduleId, g) ==
  g.result.moduleId # "none" =>
    LET r == g.result
        avg == r.averageReactionTimeMs
    IN /\ r.moduleId = moduleId
       /\ r.level = g.level
       /\ r.correctCount = g.score
       /\ r.errorCount = g.errors
       /\ r.totalTrials = g.trials
       /\ avg.d > 0
       /\ g.reactionTimes = <<>> => avg.n = 0
       /\ avg.n * Len(g.reactionTimes) = Sum(g.reactionTimes) * avg.d
       /\ g.reactionTimes = <<100, 200, 300>> => avg = [n |-> 200, d |-> 1]

C12_FinishReportsAverage ==
  /\ ReportsSession("SACC", sacc)
  /\ ReportsSession(game.moduleId, game)

C12_Witness ==
  /\ sacc.result.moduleId = "SACC"
  /\ sacc.reactionTimes = <<100, 200, 300>>
  /\ sacc.errors = 1

\* C13: an item pushed as a distractor by Sacc.generateTrial or by
\* Expl.generateLevel differs from the target in shape or in colour, and the
\* grid Sacc.generateTrial hands to setItems holds numItems = gridSize^2
\* items, exactly one of them the target.
C13_DistractorsDifferFromTarget ==
  /\ (gen.pushed > 0 /\ ~gen.last.isTarget) =>
       \/ gen.last.shape # gen.target.shape
       \/ gen.last.color # gen.target.color
  /\ (gen.module = "SACC" /\ gen.phase = "done") =>
       /\ gen.pushed = getParams(gen.level).gridSize * getParams(gen.level).gridSize
       /\ gen.pushed = getParams(gen.level).numItems
       /\ gen.targets = 1

\* A finished Sacc grid in whose making a draw equal to the target was
\* thrown away.
C13_Witness ==
  /\ gen.module = "SACC"
  /\ gen.phase = "done"
  /\ gen.rejected
  /\ ~gen.last.isTarget
  /\ gen.last.shape = gen.target.shape

\* C15: the options Sagu.generateTrial hands to setOptions are three,
\* pairwise distinct, and exactly one of them is the correct grid, also when
\* the fallback loop made some of them.
C15_ThreeDistinctOptions ==
  sagu.phase = "done" =>
    /\ Len(sagu.options) = 3
    /\ \A i, j \in 1..Len(sagu.options) :
         i # j => sagu.options[i] # sagu.options[j]
    /\ Cardinality({i \in 1..Len(sagu.options) :
                      sagu.options[i] = sagu.correctGrid}) = 1

WellFormed(data) == ~data.isNull /\ data.usersIsArray /\ data.sessionsIsArray

\* C22 as stated: importData returns false and leaves the store as it was
\* when its argument is null or its users or sessions field is not an array;
\* otherwise it returns true and the stored users and sessions are the
\* imported arrays.
C22_ImportReplacesWithArrays ==
  call.op = "importData" =>
    IF WellFormed(call.arg)
      THEN /\ call.ret = TRUE
           /\ SessionsParse(store)
           /\ getUsers(store) = call.arg.users
           /\ StoredSessions(store) = call.arg.sessions
      ELSE /\ call.ret = FALSE
           /\ store = call.pre

\* C22, amended: a rejected argument leaves the store as it was; an accepted
\* one replaces both collections by the imported arrays as JSON text carries
\* them: the same elements in the same order, each non-finite number read
\* back as null, and exactly the imported arrays when every number is finite.
C22_ImportReplacesWithJson ==
  call.op = "importData" =>
    IF WellFormed(call.arg)
      THEN /\ call.ret = TRUE
           /\ SessionsParse(store)
           /\ getUsers(store) = StringifyUsers(call.arg.users).items
           /\ StoredSessions(store) = StringifySessions(call.arg.sessions).items
           /\ Serializable(call.arg) =>
                /\ getUsers(store) = call.arg.users
                /\ StoredSessions(store) = call.arg.sessions
      ELSE /\ call.ret = FALSE
           /\ store = call.pre

\* importData has accepted a snapshot of one user and one session, whose
\* timestamp is not finite, over a store of two users and two sessions: the
\* store now holds that user, and that session with timestamp null.
C22_Witness ==
  /\ call.op = "importData"
  /\ call.ret = TRUE
  /\ Len(getUsers(call.pre)) = 2
  /\ Len(StoredSessions(call.pre)) = 2
  /\ Len(call.arg.users) = 1
  /\ Len(call.arg.sessions) = 1
  /\ call.arg.sessions[1].timestamp = Infinity
  /\ getUsers(store) = call.arg.users
  /\ StoredSessions(store) = <<[call.arg.sessions[1] EXCEPT !.timestamp = JsNull]>>

(***************************************************************************)
(* One session of Phys or of Topo.                                         *)
(***************************************************************************)
InitPhysTopo ==
  /\ store = EmptyStore
  /\ call = NoCall
  /\ app = AppInit
  /\ reak = ReakUnmounted
  /\ vigi = VigiUnmounted
  /\ nback = NbackUnmounted
  /\ corsi = CorsiUnmounted
  /\ sacc = SaccUnmounted
  /\ game = NoGame
  /\ gen = NoGen
  /\ sagu = NoSagu
  /\ expl = NoExpl
  /\ plan = NoPlan
  /\ \/ phys \in PhysInits /\ topo = NoTopo
     \/ phys = NoPhys /\ topo \in TopoInits

FramePhys ==
  UNCHANGED <<store, call, app, reak, vigi, nback, corsi, sacc, game, gen, sagu, topo, expl, plan>>

FrameTopo ==
  UNCHANGED <<store, call, app, reak, vigi, nback, corsi, sacc, game, gen, sagu, phys, expl, plan>>

NextPhysTopo ==
  \/ PhysStartTimer /\ FramePhys
  \/ PhysViewedTimer /\ FramePhys
  \/ PhysOptionsTimer /\ FramePhys
  \/ PhysSelect /\ FramePhys
  \/ PhysFinishSession /\ FramePhys
  \/ TopoStartTimer /\ FrameTopo
  \/ TopoRecallTimer /\ FrameTopo
  \/ TopoCellClick /\ FrameTopo
  \/ TopoFinishSession /\ FrameTopo

SpecPhysTopo == InitPhysTopo /\ [][NextPhysTopo]_vars

(***************************************************************************)
(* Properties of Phys and Topo, checked under SpecPhysTopo.                *)
(***************************************************************************)
\* A selection has been counted and its startTrial timeout has not run yet.
PhysSelectionCounted == BagIn(PhysStartTimeout, phys.timers)

\* C23: in Phys and in Topo one trial takes one selection.  While the
\* startTrial timeout of a counted selection is pending, a click changes
\* neither score nor errors and arms no further timeout, and at no time is
\* more than one timeout of a trial chain pending.
C23_OneSelectionPerTrial ==
  /\ [](BagCardinality(phys.timers) <= 1 /\ BagCardinality(topo.timers) <= 1)
  /\ [][/\ PhysSelectionCounted =>
             /\ phys'.score = phys.score
             /\ phys'.errors = phys.errors
             /\ BagCardinality(phys'.timers) <= BagCardinality(phys.timers)
        /\ TopoStartPending(topo) =>
             /\ topo'.score = topo.score
             /\ topo'.errors = topo.errors
             /\ BagCardinality(topo'.timers) <= BagCardinality(topo.timers)
       ]_vars

(***************************************************************************)
(* Properties of Corsi's scoring, checked under SpecCorsi.                 *)
(***************************************************************************)
Reverse(s) == [i \in 1..Len(s) |-> s[Len(s) + 1 - i]]

IsPrefix(a, b) == Len(a) <= Len(b) /\ SubSeq(b, 1, Len(a)) = a

\* The clicks a trial asks for: the presented sequence, backwards when the
\* trial was started at level 5 or above.  The level does not change from
\* the start of a trial to the click that ends it.
Expected(c) == IF c.level >= 5 THEN Reverse(c.sequence) ELSE c.sequence

CorsiCounters(c) == <<c.score, c.errors, c.trials, c.level>>

\* C24: while a trial runs its sequence has floor(level / 2) + 2 blocks and
\* the clicks so far are the beginning of the expected clicks.  An accepted
\* click that completes the expected clicks scores the trial (score + 1,
\* level + 1), the first click that deviates from them ends it as an error
\* (errors + 1, level = max(1, level - 1)), any other accepted click changes
\* no counter; and outside the input phase or while paused no step changes
\* a counter or adds a click.
C24_CorsiScoring ==
  /\ [](/\ corsi.phase \in {"showing", "input"} =>
             Len(corsi.sequence) = (corsi.level \div 2) + 2
        /\ corsi.phase \in {"showing", "input"} =>
             /\ corsi.isReverse = (corsi.level >= 5)
             /\ IsPrefix(corsi.userSequence, Expected(corsi))
             /\ corsi.userSequence # Expected(corsi))
  /\ [][/\ (corsi.rphase # "input" \/ corsi.isPaused) =>
             /\ CorsiCounters(corsi') = CorsiCounters(corsi)
             /\ corsi'.userSequence \in {corsi.userSequence, <<>>}
        /\ (corsi.rphase = "input" /\ corsi'.userSequence # corsi.userSequence) =>
             /\ Len(corsi'.userSequence) = Len(corsi.userSequence) + 1
             /\ IF corsi'.userSequence = Expected(corsi)
                  THEN /\ CorsiCounters(corsi') =
                            <<corsi.score + 1, corsi.errors, corsi.trials + 1, corsi.level + 1>>
                       /\ corsi'.phase = "feedback"
                ELSE IF ~IsPrefix(corsi'.userSequence, Expected(corsi))
                  THEN /\ CorsiCounters(corsi') =
                            <<corsi.score, corsi.errors + 1, corsi.trials + 1,
                              Max(1, corsi.level - 1)>>
                       /\ corsi'.phase = "feedback"
                  ELSE /\ CorsiCounters(corsi') = CorsiCounters(corsi)
                       /\ corsi'.phase = "input"
        /\ corsi'.score # corsi.score =>
             /\ corsi.rphase = "input"
             /\ corsi'.userSequence = Expected(corsi)
       ]_vars

\* A trial started at level 5 has just been scored: its four clicks were the
\* presented sequence backwards, which differs from the sequence itself.
C24_Witness ==
  /\ corsi.phase = "feedback"
  /\ corsi.score = 5
  /\ corsi.level = 6
  /\ corsi.isReverse
  /\ corsi.userSequence = Reverse(corsi.sequence)
  /\ corsi.userSequence # corsi.sequence

(***************************************************************************)
(* The N of Nback's stimulus loop, checked under SpecNback.                *)
(***************************************************************************)
\* C25: the N that the running loop uses is getN of the current level, the
\* N of the module title: every armed timer of the loop runs callbacks that
\* read a level with that N, and a stimulus that appears flagged as target
\* has at least N stimuli before it and shows the icon of N positions
\* earlier.
C25_LoopUsesCurrentN ==
  /\ [](\A t \in nback.timers :
          (nback.mounted /\ t.tracked) => getN(t.env.level) = getN(nback.level))
  /\ [][(/\ nback.currentIconIdx = 0
         /\ nback'.currentIconIdx # 0
         /\ nback'.isCurrentTarget) =>
          LET n == getN(nback.level)
              h == nback'.history
          IN /\ Len(h) > n
             /\ h[Len(h)] = h[Len(h) - n]
       ]_vars

(***************************************************************************)
(* One session of Expl.                                                    *)
(***************************************************************************)
InitExpl ==
  /\ store = EmptyStore
  /\ call = NoCall
  /\ app = AppInit
  /\ reak = ReakUnmounted
  /\ vigi = VigiUnmounted
  /\ nback = NbackUnmounted
  /\ corsi = CorsiUnmounted
  /\ sacc = SaccUnmounted
  /\ game = NoGame
  /\ gen = NoGen
  /\ sagu = NoSagu
  /\ phys = NoPhys
  /\ topo = NoTopo
  /\ expl = ExplInit
  /\ plan = NoPlan

FrameExpl ==
  UNCHANGED <<store, call, app, reak, vigi, nback, corsi, sacc, game, gen, sagu, phys, topo, plan>>

NextExpl ==
  \/ ExplItemClick /\ FrameExpl
  \/ ExplGenerateTimer /\ FrameExpl
  \/ ExplFinishSession /\ FrameExpl

SpecExpl == InitExpl /\ [][NextExpl]_vars

\* The grid that generateLevel builds for a level.
GridOf(level) ==
  LET gridSize == Min(5 + (level \div 2), 10)
  IN [total |-> gridSize * gridSize,
      targets |-> Max(3, (gridSize * gridSize) \div 5)]

\* C26: when no generateLevel timeout is pending the grid is the one of the
\* current level, and it is fresh (nothing found) when the last pending
\* timeout has just run; a level is completed (score + 1, trials + 1,
\* level + 1 up to 20) exactly by the click on the last unfound target.
C26_GridMatchesLevel ==
  /\ [](BagCardinality(expl.timers) = 0 =>
          /\ expl.total = GridOf(expl.level).total
          /\ expl.targets = GridOf(expl.level).targets)
  /\ [][/\ (BagCardinality(expl.timers) > 0 /\ BagCardinality(expl'.timers) = 0) =>
             expl'.found = 0
        /\ expl'.score # expl.score =>
             /\ expl.found + 1 = expl.targets
             /\ expl'.score = expl.score + 1
             /\ expl'.trials = expl.trials + 1
             /\ expl'.level = Min(20, expl.level + 1)
       ]_vars

(***************************************************************************)
(* One session of Plan.                                                    *)
(***************************************************************************)
InitPlan ==
  /\ store = EmptyStore
  /\ call = NoCall
  /\ app = AppInit
  /\ reak = ReakUnmounted
  /\ vigi = VigiUnmounted
  /\ nback = NbackUnmounted
  /\ corsi = CorsiUnmounted
  /\ sacc = SaccUnmounted
  /\ game = NoGame
  /\ gen = NoGen
  /\ sagu = NoSagu
  /\ phys = NoPhys
  /\ topo = NoTopo
  /\ expl = NoExpl
  /\ plan = PlanInit

FramePlan ==
  UNCHANGED <<store, call, app, reak, vigi, nback, corsi, sacc, game, gen, sagu, phys, topo, expl>>

NextPlan ==
  \/ PlanNodeClick /\ FramePlan
  \/ PlanPauseToggle /\ FramePlan
  \/ PlanFinishSession /\ FramePlan

SpecPlan == InitPlan /\ [][NextPlan]_vars

FreshNodes(count) == [i \in 1..count |-> [order |-> i, completed |-> FALSE]]

PlanCounters(p) == <<p.score, p.errors, p.trials, p.level>>

\* C27: the completed nodes of Plan are those of the orders below nextOrder,
\* and there are min(4 + level, 12) nodes with the orders 1..count.  A step
\* that completes a node completes the node of order nextOrder and no
\* other; when it is the last node, score, trials and level rise by 1 and a
\* fresh set of nodes for the new level is shown with nextOrder = 1,
\* otherwise nextOrder rises by 1 and no counter changes.  A click on
\* another node adds one error and one trial and leaves the nodes and
\* nextOrder as they are; score and level change in no other step; and
\* while the session is paused no step changes anything but isPaused.
C27_NodesInOrder ==
  /\ [](plan.mounted =>
          /\ Len(plan.nodes) = Min(4 + plan.level, 12)
          /\ plan.nextOrder \in 1..Len(plan.nodes)
          /\ \A i \in 1..Len(plan.nodes) :
               /\ plan.nodes[i].order = i
               /\ plan.nodes[i].completed <=> i < plan.nextOrder)
  /\ [][(plan.mounted /\ plan'.mounted) =>
          /\ plan.isPaused =>
               [plan' EXCEPT !.isPaused = plan.isPaused] = plan
          /\ (plan'.nodes # plan.nodes \/ plan'.nextOrder # plan.nextOrder) =>
               IF plan.nextOrder = Len(plan.nodes)
                 THEN /\ PlanCounters(plan') =
                           <<plan.score + 1, plan.errors, plan.trials + 1, plan.level + 1>>
                      /\ plan'.nodes = FreshNodes(Min(4 + plan'.level, 12))
                      /\ plan'.nextOrder = 1
                 ELSE /\ PlanCounters(plan') = PlanCounters(plan)
                      /\ plan'.nodes =
                           [plan.nodes EXCEPT ![plan.nextOrder].completed = TRUE]
                      /\ plan'.nextOrder = plan.nextOrder + 1
          /\ plan'.errors # plan.errors =>
               /\ PlanCounters(plan') =
                    <<plan.score, plan.errors + 1, plan.trials + 1, plan.level>>
               /\ plan'.nodes = plan.nodes
               /\ plan'.nextOrder = plan.nextOrder
          /\ (plan'.score # plan.score \/ plan'.level # plan.level) =>
               plan.nextOrder = Len(plan.nodes)
       ]_vars

\* Eight levels have been completed and one wrong node was clicked: level 9
\* shows twelve nodes, of which the first two are completed.
C27_Witness ==
  /\ plan.mounted
  /\ plan.level = 9
  /\ plan.score = 8
  /\ plan.errors = 1
  /\ Len(plan.nodes) = 12
  /\ plan.nextOrder = 3
  /\ plan.nodes[2].completed
  /\ ~plan.nodes[3].completed

(***************************************************************************)
(* transformGrid on its own: any of the 2^9 grids, and up to MaxOps        *)
(* operations applied to it one after the other.                           *)
(***************************************************************************)
Grids == SUBSET Cells

InitTransform ==
  /\ store = EmptyStore
  /\ call = NoCall
  /\ app = AppInit
  /\ reak = ReakUnmounted
  /\ vigi = VigiUnmounted
  /\ nback = NbackUnmounted
  /\ corsi = CorsiUnmounted
  /\ sacc = SaccUnmounted
  /\ game = NoGame
  /\ gen = NoGen
  /\ phys = NoPhys
  /\ topo = NoTopo
  /\ expl = NoExpl
  /\ plan = NoPlan
  /\ \E grid \in Grids :
       sagu = [phase |-> "transform", base |-> grid, grid |-> grid, applied |-> <<>>]

SaguTransform ==
  /\ sagu.phase = "transform"
  /\ Len(sagu.applied) < MaxOps
  /\ \E op \in Operations :
       sagu' = [sagu EXCEPT !.grid = transformGrid(sagu.grid, op),
                            !.applied = Append(@, op)]

NextTransform == SaguTransform /\ FrameSagu

SpecTransform == InitTransform /\ [][NextTransform]_vars

Rot90Times(k) == [i \in 1..k |-> "rot90"]

\* C28: every map of TRANSFORMS is a permutation of the nine cells, every
\* operation keeps the number of filled cells, flipH, flipV and rot180
\* applied twice give the grid back, rot90 applied twice is rot180, and
\* rot90 applied four times gives the grid back.
C28_TransformAlgebra ==
  /\ \A op \in Operations :
       {TRANSFORMS[op][i + 1] : i \in Cells} = Cells
  /\ sagu.phase = "transform" =>
       /\ Cardinality(sagu.grid) = Cardinality(sagu.base)
       /\ \A op \in {"flipH", "flipV", "rot180"} :
            sagu.applied = <<op, op>> => sagu.grid = sagu.base
       /\ sagu.applied = Rot90Times(2) =>
            sagu.grid = transformGrid(sagu.base, "rot180")
       /\ sagu.applied = Rot90Times(4) => sagu.grid = sagu.base

\* A grid of three cells that no quarter turn maps to itself has been turned
\* four times and is back where it was.
C28_Witness ==
  /\ sagu.phase = "transform"
  /\ sagu.base = {0, 1, 5}
  /\ transformGrid(sagu.base, "rot90") # sagu.base
  /\ sagu.applied = Rot90Times(4)
  /\ sagu.grid = sagu.base

(***************************************************************************)
(* Further properties of the App.  C29 is checked under SpecApp, C30 under *)
(* SpecHost: the App without the import of a file.                         *)
(***************************************************************************)
\* C29: training is entered through the countdown only.  The view becomes
\* countdown by startModule from the menu, with a module chosen and
\* count = 3; count changes by startModule or by a tick that takes 1 from
\* a positive count during the countdown; the countdown is left for
\* training only, at count 0, and sessionStartTime is then the current
\* time.  In every state count is within 0..3, and in the views countdown
\* and training a user is logged in and a module is active.
C29_TrainingThroughCountdown ==
  /\ [](/\ app.count \in 0..3
        /\ app.view \in {"countdown", "training"} =>
             /\ app.user # NoUser
             /\ app.activeModule \in ModuleIDs)
  /\ [][/\ (app'.view = "countdown" /\ app.view # "countdown") =>
             /\ app.view = "menu"
             /\ app'.count = 3
             /\ app'.activeModule \in ModuleIDs
        /\ (app'.view = "training" /\ app.view # "training") =>
             /\ app.view = "countdown"
             /\ app.count = 0
             /\ app'.sessionStartTime = DateNow(app)
             /\ app'.activeModule = app.activeModule
        /\ (app.view = "countdown" /\ app'.view # "countdown") =>
             /\ app'.view = "training"
             /\ app.count = 0
        /\ app'.count # app.count =>
             \/ /\ app.view = "countdown"
                /\ app'.view = "countdown"
                /\ app.count > 0
                /\ app'.count = app.count - 1
             \/ /\ app.view = "menu"
                /\ app'.view = "countdown"
                /\ app'.count = 3
       ]_vars

\* The countdown has run from 3 to 0 and training has begun at time 500.
C29_Witness ==
  /\ app.view = "training"
  /\ app.count = 0
  /\ app.sessionStartTime = 500
  /\ app.activeModule = "CORSI"
  /\ app.user # NoUser

NextHost ==
  \/ AppLogin /\ FrameApp
  \/ AppLogout /\ FrameApp
  \/ AppCreateUser /\ FrameApp
  \/ AppDeleteUser /\ FrameApp
  \/ AppShowDashboard /\ FrameApp
  \/ AppBackToMenu /\ FrameApp
  \/ AppStartModule /\ FrameApp
  \/ AppCountdownTimer /\ FrameApp
  \/ AppCountdownDone /\ FrameApp
  \/ AppModuleComplete /\ FrameApp
  \/ AppClock /\ FrameApp

SpecHost == InitApp /\ [][NextHost]_vars

\* C30: without an import, every stored session belongs to a stored user,
\* and the logged-in user, if there is one, is a stored user.
C30_SessionsHaveUsers ==
  /\ SessionsParse(store)
  /\ \A i \in 1..Len(StoredSessions(store)) :
       \E j \in 1..Len(getUsers(store)) :
         getUsers(store)[j].id = StoredSessions(store)[i].userId
  /\ app.user # NoUser =>
       \E j \in 1..Len(getUsers(store)) : getUsers(store)[j] = app.user

\* A user has been created, has trained from time 500, has completed the
\* session and has then been deleted: no user and no session is stored.
C30_Witness ==
  /\ app.view = "login"
  /\ app.uuid = 2
  /\ app.sessionStartTime = 500
  /\ getUsers(store) = <<>>
  /\ StoredSessions(store) = <<>>
  /\ app.users = <<>>
====
